---- MODULE Spec2Model ----
(***************************************************************************)
(* Response interpretation layer of passivized_docker_engine_client:       *)
(* DockerEngineHttpResponse (src/src/imp/http_proxy.rs) and the parsers    *)
(* it hands response bodies to.                                            *)
(*                                                                         *)
(* Bytes are numbers 0..255, text is a sequence of Unicode code points,    *)
(* a Result is [ok |-> TRUE, v |-> value] or [ok |-> FALSE, e |-> error],  *)
(* an Option is [some |-> FALSE] or [some |-> TRUE, v |-> value].          *)
(***************************************************************************)
EXTENDS Integers, Sequences, FiniteSets, TLC

VARIABLES
    mock,       \* what the HTTP server was set up to answer (status, header, body recipe)
    raw,        \* Option<DockerEngineHttpResponse>: the raw response the caller holds
    op,         \* the last operation applied
    arg,        \* that operation's argument (expected statuses / content type / target type)
    input,      \* the response the last operation consumed
    outcome,    \* the Result the last operation returned
    steps       \* the stages of response interpretation the last operation went through

vars == <<mock, raw, op, arg, input, outcome, steps>>

----------------------------------------------------------------------------
(* Result and Option *)

Ok(v) == [ok |-> TRUE, v |-> v]

Err(e) == [ok |-> FALSE, e |-> e]

None == [some |-> FALSE]

Some(v) == [some |-> TRUE, v |-> v]

Unit == [unit |-> TRUE]

----------------------------------------------------------------------------
(* Character codes of the one-character strings used to write bodies down *)

Code ==
    "{" :> 123 @@ "}" :> 125 @@ "[" :> 91 @@ "]" :> 93 @@ "\"" :> 34 @@
    ":" :> 58 @@ "," :> 44 @@ " " :> 32 @@ "<" :> 60 @@ ">" :> 62 @@
    "(" :> 40 @@ ")" :> 41 @@ "/" :> 47 @@ "." :> 46 @@ "-" :> 45 @@
    "_" :> 95 @@ "?" :> 63 @@ "=" :> 61 @@ "&" :> 38 @@ "%" :> 37 @@
    "+" :> 43 @@ ";" :> 59 @@ "#" :> 35 @@ "a" :> 97 @@ "b" :> 98 @@ "c" :> 99 @@
    "d" :> 100 @@ "e" :> 101 @@ "f" :> 102 @@ "g" :> 103 @@ "h" :> 104 @@
    "i" :> 105 @@ "j" :> 106 @@ "k" :> 107 @@ "l" :> 108 @@ "m" :> 109 @@
    "n" :> 110 @@ "o" :> 111 @@ "p" :> 112 @@ "q" :> 113 @@ "r" :> 114 @@
    "s" :> 115 @@ "t" :> 116 @@ "u" :> 117 @@ "v" :> 118 @@ "w" :> 119 @@
    "x" :> 120 @@ "y" :> 121 @@ "z" :> 122 @@ "D" :> 68 @@ "H" :> 72 @@
    "W" :> 87 @@ "T" :> 84 @@ "Z" :> 90 @@ "A" :> 65 @@ "C" :> 67 @@
    "I" :> 73 @@ "L" :> 76 @@ "P" :> 80 @@ "R" :> 82 @@ "S" :> 83 @@
    "V" :> 86 @@ "X" :> 88 @@ "K" :> 75 @@ "0" :> 48 @@ "1" :> 49 @@
    "2" :> 50 @@ "3" :> 51 @@ "4" :> 52 @@ "5" :> 53 @@ "6" :> 54 @@
    "7" :> 55 @@ "8" :> 56 @@ "9" :> 57 @@ "\n" :> 10

\* the text (code points) of a tuple of one-character strings
T(chars) == [i \in DOMAIN chars |-> Code[chars[i]]]

RECURSIVE Concat(_)
Concat(ss) == IF ss = <<>> THEN <<>> ELSE Head(ss) \o Concat(Tail(ss))

----------------------------------------------------------------------------
(* String::from_utf8 (std): the text of a byte sequence, or the length of  *)
(* its longest valid prefix.                                               *)

IsCont(b) == b >= 128 /\ b <= 191

\* the bytes the second byte of a sequence led by `lead` may be
SecondOk(lead, b) ==
    CASE lead = 224 -> b >= 160 /\ b <= 191
      [] lead = 237 -> b >= 128 /\ b <= 159
      [] lead = 240 -> b >= 144 /\ b <= 191
      [] lead = 244 -> b >= 128 /\ b <= 143
      [] OTHER -> IsCont(b)

\* the width of the sequence a byte leads, 0 for a byte that leads none
Utf8Width(b) ==
    CASE b < 128 -> 1
      [] b >= 194 /\ b <= 223 -> 2
      [] b >= 224 /\ b <= 239 -> 3
      [] b >= 240 /\ b <= 244 -> 4
      [] OTHER -> 0

\* the length of the well-formed sequence that begins at bytes[i], 0 if none
Utf8SeqLen(bytes, i) ==
    IF Utf8Width(bytes[i]) = 0 \/ i + Utf8Width(bytes[i]) - 1 > Len(bytes) THEN 0
    ELSE IF Utf8Width(bytes[i]) >= 2 /\ ~SecondOk(bytes[i], bytes[i + 1]) THEN 0
    ELSE IF Utf8Width(bytes[i]) >= 3 /\ ~IsCont(bytes[i + 2]) THEN 0
    ELSE IF Utf8Width(bytes[i]) = 4 /\ ~IsCont(bytes[i + 3]) THEN 0
    ELSE Utf8Width(bytes[i])

\* the code point of the well-formed sequence that begins at bytes[i]
Utf8CodePoint(bytes, i) ==
    CASE Utf8Width(bytes[i]) = 1 -> bytes[i]
      [] Utf8Width(bytes[i]) = 2 -> (bytes[i] - 192) * 64 + (bytes[i + 1] - 128)
      [] Utf8Width(bytes[i]) = 3 ->
            (bytes[i] - 224) * 4096 + (bytes[i + 1] - 128) * 64 + (bytes[i + 2] - 128)
      [] OTHER ->
            (bytes[i] - 240) * 262144 + (bytes[i + 1] - 128) * 4096
            + (bytes[i + 2] - 128) * 64 + (bytes[i + 3] - 128)

\* bytes[p] is where the validation stops: a byte that begins no well-formed
\* sequence and belongs to none
Utf8Bad(bytes, p) ==
    IF IsCont(bytes[p])
    THEN ~\E i \in (p - 3)..(p - 1) : i >= 1 /\ Utf8SeqLen(bytes, i) > p - i
    ELSE Utf8SeqLen(bytes, p) = 0

\* the code points of the sequences that begin at `leads`, in order
Utf8Text(bytes, leads) ==
    [k \in 1..Cardinality(leads) |->
        Utf8CodePoint(bytes,
            CHOOSE i \in leads : Cardinality({j \in leads : j <= i}) = k)]

Utf8Checked(bytes, bad) ==
    IF bad # {}
    THEN Err([valid_up_to |-> (CHOOSE p \in bad : \A q \in bad : p <= q) - 1])
    ELSE Ok(Utf8Text(bytes, {p \in 1..Len(bytes) : ~IsCont(bytes[p])}))

\* String::from_utf8: Ok(the text, a sequence of code points), or Err at the
\* first byte that is not part of a well-formed sequence; ASCII is its own text
from_utf8(bytes) ==
    IF \A p \in 1..Len(bytes) : bytes[p] < 128 THEN Ok(bytes)
    ELSE Utf8Checked(bytes, {p \in 1..Len(bytes) : Utf8Bad(bytes, p)})

----------------------------------------------------------------------------
(* serde_json: the syntax of JSON text.  A parsed value is one of          *)
(*   [t |-> "str", s |-> text]        [t |-> "num", int |-> no . or e]    *)
(*   [t |-> "lit", name |-> "null" | "true" | "false"]                     *)
(*   [t |-> "obj", m |-> <<[k |-> text, v |-> value], ...>>]               *)
(*   [t |-> "arr", a |-> <<value, ...>>]                                   *)
(* and a parse step returns [ok |-> TRUE, v |-> value, next |-> index] or  *)
(* [ok |-> FALSE].  \u escapes are not modelled (no body uses them).       *)
(*                                                                         *)
(* An operator takes each intermediate result as a parameter of the        *)
(* operator that goes on from it, rather than naming it in a LET.          *)

SerdeError == "serde_json::Error"

NoParse == [ok |-> FALSE]

Parsed(v, next) == [ok |-> TRUE, v |-> v, next |-> next]

IsWs(c) == c \in {32, 10, 13, 9}

IsDigit(c) == c >= 48 /\ c <= 57

At(t, i) == IF i >= 1 /\ i <= Len(t) THEN t[i] ELSE -1

RECURSIVE SkipWs(_, _)
SkipWs(t, i) == IF IsWs(At(t, i)) THEN SkipWs(t, i + 1) ELSE i

RECURSIVE SkipDigits(_, _)
SkipDigits(t, i) == IF IsDigit(At(t, i)) THEN SkipDigits(t, i + 1) ELSE i

\* the character a simple escape stands for, -1 for none
Unescape(c) ==
    CASE c = 34 -> 34 [] c = 92 -> 92 [] c = 47 -> 47 [] c = 98 -> 8
      [] c = 102 -> 12 [] c = 110 -> 10 [] c = 114 -> 13 [] c = 116 -> 9
      [] OTHER -> -1

\* i is the index after the opening quote
RECURSIVE ScanString(_, _, _)
ScanString(t, i, acc) ==
    LET c == At(t, i)
    IN  IF c = 34 THEN Parsed([t |-> "str", s |-> acc], i + 1)
        ELSE IF c < 32 THEN NoParse
        ELSE IF c = 92 THEN
            IF Unescape(At(t, i + 1)) = -1 THEN NoParse
            ELSE ScanString(t, i + 2, Append(acc, Unescape(At(t, i + 1))))
        ELSE ScanString(t, i + 1, Append(acc, c))

\* -? (0 | [1-9][0-9]*) (. [0-9]+)? ([eE] [+-]? [0-9]+)?
NumberEnd(e, d) == IF d = e THEN NoParse ELSE Parsed([t |-> "num", int |-> FALSE], d)

NumberExp(t, c, int) ==
    IF At(t, c) \in {101, 69}
    THEN IF At(t, c + 1) \in {43, 45}
         THEN NumberEnd(c + 2, SkipDigits(t, c + 2))
         ELSE NumberEnd(c + 1, SkipDigits(t, c + 1))
    ELSE Parsed([t |-> "num", int |-> int], c)

NumberFrac(t, b, c) == IF c = b + 1 THEN NoParse ELSE NumberExp(t, c, FALSE)

NumberInt(t, a, b) ==
    IF b = a THEN NoParse
    ELSE IF At(t, b) = 46 THEN NumberFrac(t, b, SkipDigits(t, b + 1))
    ELSE NumberExp(t, b, TRUE)

NumberFrom(t, a) == NumberInt(t, a, IF At(t, a) = 48 THEN a + 1 ELSE SkipDigits(t, a))

ScanNumber(t, i) == NumberFrom(t, IF At(t, i) = 45 THEN i + 1 ELSE i)

ScanLiteral(t, i, word, name) ==
    IF i + Len(word) - 1 <= Len(t) /\ SubSeq(t, i, i + Len(word) - 1) = word
    THEN Parsed([t |-> "lit", name |-> name], i + Len(word))
    ELSE NoParse

RECURSIVE ParseValue(_, _)
RECURSIVE ParseMembers(_, _, _), MemberKey(_, _, _), MemberColon(_, _, _, _)
RECURSIVE MemberValue(_, _, _, _), MemberEnd(_, _, _)
RECURSIVE ParseElements(_, _, _), ElementValue(_, _, _), ElementEnd(_, _, _)

\* j is the index of the first character after `{` and whitespace
ObjectFrom(t, j) ==
    IF At(t, j) = 125 THEN Parsed([t |-> "obj", m |-> <<>>], j + 1)
    ELSE ParseMembers(t, j, <<>>)

\* j is the index of the first character after `[` and whitespace
ArrayFrom(t, j) ==
    IF At(t, j) = 93 THEN Parsed([t |-> "arr", a |-> <<>>], j + 1)
    ELSE ParseElements(t, j, <<>>)

\* i is the index of the value's first character
ParseValue(t, i) ==
    CASE At(t, i) = 34 -> ScanString(t, i + 1, <<>>)
      [] At(t, i) = 123 -> ObjectFrom(t, SkipWs(t, i + 1))
      [] At(t, i) = 91 -> ArrayFrom(t, SkipWs(t, i + 1))
      [] At(t, i) = 116 -> ScanLiteral(t, i, <<116, 114, 117, 101>>, "true")
      [] At(t, i) = 102 -> ScanLiteral(t, i, <<102, 97, 108, 115, 101>>, "false")
      [] At(t, i) = 110 -> ScanLiteral(t, i, <<110, 117, 108, 108>>, "null")
      [] At(t, i) = 45 \/ IsDigit(At(t, i)) -> ScanNumber(t, i)
      [] OTHER -> NoParse

\* i is the index where a member's key must start
ParseMembers(t, i, acc) ==
    IF At(t, i) # 34 THEN NoParse
    ELSE MemberKey(t, ScanString(t, i + 1, <<>>), acc)

MemberKey(t, k, acc) ==
    IF ~k.ok THEN NoParse ELSE MemberColon(t, k.v.s, SkipWs(t, k.next), acc)

MemberColon(t, key, c, acc) ==
    IF At(t, c) # 58 THEN NoParse
    ELSE MemberValue(t, key, ParseValue(t, SkipWs(t, c + 1)), acc)

MemberValue(t, key, v, acc) ==
    IF ~v.ok THEN NoParse
    ELSE MemberEnd(t, SkipWs(t, v.next), Append(acc, [k |-> key, v |-> v.v]))

MemberEnd(t, j, ms) ==
    IF At(t, j) = 125 THEN Parsed([t |-> "obj", m |-> ms], j + 1)
    ELSE IF At(t, j) = 44 THEN ParseMembers(t, SkipWs(t, j + 1), ms)
    ELSE NoParse

\* i is the index where an element must start
ParseElements(t, i, acc) == ElementValue(t, ParseValue(t, i), acc)

ElementValue(t, v, acc) ==
    IF ~v.ok THEN NoParse ELSE ElementEnd(t, SkipWs(t, v.next), Append(acc, v.v))

ElementEnd(t, j, es) ==
    IF At(t, j) = 93 THEN Parsed([t |-> "arr", a |-> es], j + 1)
    ELSE IF At(t, j) = 44 THEN ParseElements(t, SkipWs(t, j + 1), es)
    ELSE NoParse

----------------------------------------------------------------------------
(* serde: the derived Deserialize of the response types *)

IsNull(v) == v.t = "lit" /\ v.name = "null"

De_String(v) == IF v.t = "str" THEN Ok(v.s) ELSE Err(SerdeError)

De_OptString(v) ==
    IF IsNull(v) THEN Ok(None)
    ELSE IF v.t = "str" THEN Ok(Some(v.s)) ELSE Err(SerdeError)

\* the values of the members named `key`, in order
FieldValues(m, key) == SelectSeq(m, LAMBDA x : x.k = key)

\* a field that must be there: absent is an error, and so is twice
RequiredField(ms) == IF Len(ms) = 1 THEN De_String(ms[1].v) ELSE Err(SerdeError)

MessageStruct(field) == IF field.ok THEN Ok([message |-> field.v]) ELSE Err(SerdeError)

\* a struct whose one field is `message: String`, from a map or from a sequence
De_MessageStruct(v) ==
    IF v.t = "obj"
    THEN MessageStruct(RequiredField(
             FieldValues(v.m, T(<<"m", "e", "s", "s", "a", "g", "e">>))))
    ELSE IF v.t = "arr" /\ Len(v.a) = 1 THEN MessageStruct(De_String(v.a[1]))
    ELSE Err(SerdeError)

ErrorResponse_deserialize(v) == De_MessageStruct(v)

BuildImageResponseStreamItemErrorDetail_deserialize(v) == De_MessageStruct(v)

OptOf(d) == IF d.ok THEN Ok(Some(d.v)) ELSE Err(SerdeError)

De_OptErrorDetail(v) ==
    IF IsNull(v) THEN Ok(None)
    ELSE OptOf(BuildImageResponseStreamItemErrorDetail_deserialize(v))

\* an Option field of a struct read from a map: absent is None, twice is an error
OptField(ms, De(_)) ==
    IF Len(ms) = 0 THEN Ok(None)
    ELSE IF Len(ms) = 1 THEN De(ms[1].v) ELSE Err(SerdeError)

StreamItem(stream, error_detail, error) ==
    IF stream.ok /\ error_detail.ok /\ error.ok
    THEN Ok([stream |-> stream.v, error_detail |-> error_detail.v, error |-> error.v])
    ELSE Err(SerdeError)

BuildImageResponseStreamItem_deserialize(v) ==
    IF v.t = "obj" THEN
        StreamItem(
            OptField(FieldValues(v.m, T(<<"s", "t", "r", "e", "a", "m">>)), De_OptString),
            OptField(FieldValues(v.m, T(<<"e", "r", "r", "o", "r", "D", "e", "t", "a", "i", "l">>)),
                     De_OptErrorDetail),
            OptField(FieldValues(v.m, T(<<"e", "r", "r", "o", "r">>)), De_OptString))
    ELSE IF v.t = "arr" /\ Len(v.a) = 3 THEN
        StreamItem(De_OptString(v.a[1]), De_OptErrorDetail(v.a[2]), De_OptString(v.a[3]))
    ELSE Err(SerdeError)

\* i64 and i32: a number written without fraction and exponent (its value is
\* not kept; no number served has more digits than the type holds)
De_i64(v) == IF v.t = "num" /\ v.int THEN Ok("i64") ELSE Err(SerdeError)

De_VecString(v) ==
    IF v.t = "arr" /\ \A i \in DOMAIN v.a : v.a[i].t = "str"
    THEN Ok([i \in DOMAIN v.a |-> v.a[i].s])
    ELSE Err(SerdeError)

\* Option::deserialize(deserializer)?.unwrap_or_default() for a Vec<String>
dz_vec(v) == IF IsNull(v) THEN Ok(<<>>) ELSE De_VecString(v)

\* the same for a HashMap<String, String>; a key given twice keeps the later
dz_hashmap(v) ==
    IF IsNull(v) THEN Ok({})
    ELSE IF v.t = "obj" /\ \A i \in DOMAIN v.m : v.m[i].v.t = "str"
    THEN Ok({v.m[i].k : i \in DOMAIN v.m})
    ELSE Err(SerdeError)

\* a field without a default: absent is an error, and so is twice
Required(ms, De(_)) == IF Len(ms) = 1 THEN De(ms[1].v) ELSE Err(SerdeError)

ListedImageOf(id, parent_id, repo_tags, repo_digests, created, size, shared_size,
              virtual_size, labels, containers) ==
    IF /\ id.ok /\ parent_id.ok /\ repo_tags.ok /\ repo_digests.ok /\ created.ok
       /\ size.ok /\ shared_size.ok /\ virtual_size.ok /\ labels.ok /\ containers.ok
    THEN Ok([id |-> id.v, parent_id |-> parent_id.v, repo_tags |-> repo_tags.v,
             repo_digests |-> repo_digests.v, labels |-> labels.v])
    ELSE Err(SerdeError)

\* #[derive(Deserialize)] for ListedImage, from a map or from a sequence
ListedImage_deserialize(v) ==
    IF v.t = "obj" THEN
        ListedImageOf(
            Required(FieldValues(v.m, T(<<"I", "d">>)), De_String),
            Required(FieldValues(v.m, T(<<"P", "a", "r", "e", "n", "t", "I", "d">>)), De_String),
            Required(FieldValues(v.m, T(<<"R", "e", "p", "o", "T", "a", "g", "s">>)), dz_vec),
            Required(FieldValues(v.m, T(<<"R", "e", "p", "o", "D", "i", "g", "e", "s", "t", "s">>)),
                     dz_vec),
            Required(FieldValues(v.m, T(<<"C", "r", "e", "a", "t", "e", "d">>)), De_i64),
            Required(FieldValues(v.m, T(<<"S", "i", "z", "e">>)), De_i64),
            Required(FieldValues(v.m, T(<<"S", "h", "a", "r", "e", "d", "S", "i", "z", "e">>)),
                     De_i64),
            Required(FieldValues(v.m, T(<<"V", "i", "r", "t", "u", "a", "l", "S", "i", "z", "e">>)),
                     De_i64),
            Required(FieldValues(v.m, T(<<"L", "a", "b", "e", "l", "s">>)), dz_hashmap),
            Required(FieldValues(v.m, T(<<"C", "o", "n", "t", "a", "i", "n", "e", "r", "s">>)),
                     De_i64))
    ELSE IF v.t = "arr" /\ Len(v.a) = 10 THEN
        ListedImageOf(De_String(v.a[1]), De_String(v.a[2]), dz_vec(v.a[3]), dz_vec(v.a[4]),
                      De_i64(v.a[5]), De_i64(v.a[6]), De_i64(v.a[7]), De_i64(v.a[8]),
                      dz_hashmap(v.a[9]), De_i64(v.a[10]))
    ELSE Err(SerdeError)

FileSystemChangeOf(path, kind) ==
    IF path.ok /\ kind.ok THEN Ok([path |-> path.v]) ELSE Err(SerdeError)

\* #[derive(Deserialize)] for FileSystemChange
FileSystemChange_deserialize(v) ==
    IF v.t = "obj" THEN
        FileSystemChangeOf(Required(FieldValues(v.m, T(<<"P", "a", "t", "h">>)), De_String),
                           Required(FieldValues(v.m, T(<<"K", "i", "n", "d">>)), De_i64))
    ELSE IF v.t = "arr" /\ Len(v.a) = 2 THEN
        FileSystemChangeOf(De_String(v.a[1]), De_i64(v.a[2]))
    ELSE Err(SerdeError)

\* Vec<T>: a sequence every element of which is a T
De_Vec(v, De(_)) ==
    IF v.t = "arr" /\ \A i \in DOMAIN v.a : De(v.a[i]).ok
    THEN Ok([i \in DOMAIN v.a |-> De(v.a[i]).v])
    ELSE Err(SerdeError)

Vec_ListedImage_deserialize(v) == De_Vec(v, ListedImage_deserialize)

Vec_FileSystemChange_deserialize(v) == De_Vec(v, FileSystemChange_deserialize)

\* Option<Vec<FileSystemChange>>
Opt_Vec_FileSystemChange_deserialize(v) ==
    IF IsNull(v) THEN Ok(None) ELSE OptOf(Vec_FileSystemChange_deserialize(v))

\* the types A the client parses responses into, by name
Deserialize(A, v) ==
    CASE A = "ErrorResponse" -> ErrorResponse_deserialize(v)
      [] A = "Vec<ListedImage>" -> Vec_ListedImage_deserialize(v)
      [] A = "Option<Vec<FileSystemChange>>" -> Opt_Vec_FileSystemChange_deserialize(v)
      [] OTHER -> BuildImageResponseStreamItem_deserialize(v)

\* after the value: nothing but whitespace may follow
FromStrEnd(text, p, d) ==
    IF ~d.ok THEN Err(SerdeError)
    ELSE IF SkipWs(text, p.next) <= Len(text) THEN Err(SerdeError)
    ELSE d

FromStrValue(A, text, p) ==
    IF ~p.ok THEN Err(SerdeError) ELSE FromStrEnd(text, p, Deserialize(A, p.v))

\* serde_json::from_str::<A>
from_str(A, text) == FromStrValue(A, text, ParseValue(text, SkipWs(text, 1)))

\* Deserializer::from_str(text).into_iter::<A>(): the Results the iterator
\* yields, in order; it stops at the end of the text and after its first Err
RECURSIVE StreamDeserializer(_, _, _), StreamNext(_, _, _), StreamValue(_, _, _, _)
RECURSIVE StreamItemEnd(_, _, _, _, _)

StreamDeserializer(A, text, i) == StreamNext(A, text, SkipWs(text, i))

StreamNext(A, text, j) ==
    IF j > Len(text) THEN <<>>
    ELSE StreamValue(A, text, At(text, j) \in {91, 34, 123}, ParseValue(text, j))

StreamValue(A, text, self_delineated, p) ==
    IF ~p.ok THEN <<Err(SerdeError)>>
    ELSE StreamItemEnd(A, text, self_delineated, p.next, Deserialize(A, p.v))

StreamItemEnd(A, text, self_delineated, next, d) ==
    IF ~d.ok THEN <<Err(SerdeError)>>
    ELSE IF ~self_delineated
            /\ ~(next > Len(text) \/ IsWs(At(text, next))
                 \/ At(text, next) \in {34, 91, 93, 123, 125, 44, 58})
    THEN <<Err(SerdeError)>>
    ELSE <<d>> \o StreamDeserializer(A, text, next)

----------------------------------------------------------------------------
(* StreamLine (src/src/model/streams.rs): the multiplexed stream of a      *)
(* container's output.  The reader is a byte sequence and a position.      *)

StreamKind_from(value) ==
    CASE value = 0 -> [kind |-> "StdIn"]
      [] value = 1 -> [kind |-> "StdOut"]
      [] value = 2 -> [kind |-> "StdErr"]
      [] OTHER -> [kind |-> "Other", value |-> value]

StreamLineReadError_Io == [tag |-> "Io", kind |-> "UnexpectedEof"]

StreamLineReadError_Utf8Conversion(e) == [tag |-> "Utf8Conversion", error |-> e]

\* reader.read_exact of n bytes at position pos (the bytes before pos are read)
ReadExact(bytes, pos, n) ==
    IF n > Len(bytes) - pos THEN Err(StreamLineReadError_Io)
    ELSE Ok(SubSeq(bytes, pos + 1, pos + n))

\* a read_u32 that takes the bytes in little-endian order
LittleEndianU32(b) ==
    IF b[4] >= 128 THEN 2147483647
    ELSE b[4] * 16777216 + b[3] * 65536 + b[2] * 256 + b[1]

\* read_u32::<BigEndian>; a length of 2^31 or more is kept as 2^31 - 1, which
\* like it is longer than any body
BigEndianU32(b) ==
    IF b[1] >= 128 THEN 2147483647
    ELSE b[1] * 16777216 + b[2] * 65536 + b[3] * 256 + b[4]

Line(stream_type, text, pos) ==
    IF ~text.ok THEN [r |-> Err(StreamLineReadError_Utf8Conversion(text.e)), pos |-> pos]
    ELSE [r |-> Ok(Some([kind |-> StreamKind_from(stream_type), text |-> text.v])),
          pos |-> pos]

\* a ReadText that makes a line of the bytes there are when the input ends
\* before the declared length
ReadText_partial(bytes, pos, stream_type, text_length, text_bytes) ==
    IF ~text_bytes.ok
    THEN Line(stream_type, from_utf8(SubSeq(bytes, pos + 9, Len(bytes))), Len(bytes))
    ELSE Line(stream_type, from_utf8(text_bytes.v), pos + 8 + text_length)

ReadText(bytes, pos, stream_type, text_length, text_bytes) ==
    IF ~text_bytes.ok THEN [r |-> Err(StreamLineReadError_Io), pos |-> Len(bytes)]
    ELSE Line(stream_type, from_utf8(text_bytes.v), pos + 8 + text_length)

ReadLength(bytes, pos, stream_type, text_length) ==
    ReadText(bytes, pos, stream_type, text_length, ReadExact(bytes, pos + 8, text_length))

ReadHeader(bytes, pos, stream_type, reserved, size) ==
    IF ~stream_type.ok THEN [r |-> Ok(None), pos |-> pos]
    ELSE IF ~reserved.ok \/ ~size.ok
    THEN [r |-> Err(StreamLineReadError_Io), pos |-> Len(bytes)]
    ELSE ReadLength(bytes, pos, stream_type.v[1], BigEndianU32(size.v))

\* StreamLine::read: [r |-> Result<Option<StreamLine>>, pos |-> the reader's new position]
StreamLine_read(bytes, pos) ==
    ReadHeader(bytes, pos, ReadExact(bytes, pos, 1), ReadExact(bytes, pos + 1, 3),
               ReadExact(bytes, pos + 4, 4))

RECURSIVE ReadAllFrom(_, _, _), ReadAllNext(_, _, _)
ReadAllFrom(bytes, pos, result) == ReadAllNext(bytes, result, StreamLine_read(bytes, pos))

ReadAllNext(bytes, result, line) ==
    IF ~line.r.ok THEN Err(line.r.e)
    ELSE IF ~line.r.v.some THEN Ok(result)
    ELSE ReadAllFrom(bytes, line.pos, Append(result, line.r.v.v))

StreamLine_read_all(bytes) == ReadAllFrom(bytes, 0, <<>>)

----------------------------------------------------------------------------
(* DockerEngineHttpResponse (src/src/imp/http_proxy.rs) and DecUseError    *)
(* (src/src/errors/dec_use.rs).  An operation that parses returns          *)
(* [r |-> its result, steps |-> the stages it went through, in order].     *)

NOT_FOUND == 404

NOT_IMPLEMENTED == 501

JSON == "application/json"

STREAM == "application/vnd.docker.raw-stream"

DockerEngineHttpResponse(request_uri, status, content_type, body) ==
    [request_uri |-> request_uri, status |-> status, content_type |-> content_type,
     body |-> body]

ApiNotFound(uri) == [tag |-> "ApiNotFound", uri |-> uri]

ApiNotImplemented(uri) == [tag |-> "ApiNotImplemented", uri |-> uri]

NotFound(message) == [tag |-> "NotFound", message |-> message]

Rejected(status, message) == [tag |-> "Rejected", status |-> status, message |-> message]

StreamLineRead(e) == [tag |-> "StreamLineRead", error |-> e]

UnexpectedResponseContentType(expected, actual) ==
    [tag |-> "UnexpectedResponseContentType", expected |-> expected, actual |-> actual]

UnparseableJsonResponse(status, text, parse_error) ==
    [tag |-> "UnparseableJsonResponse", status |-> status, text |-> text,
     parse_error |-> parse_error]

from_not_utf8(other) ==
    [tag |-> "UnparseableUtf8Response", status |-> other.status,
     content_type |-> other.content_type, parse_error |-> other.error]

converge(result) == IF result.ok THEN result.v ELSE result.e

Traced(r, s) == [r |-> r, steps |-> s]

DockerEngineResponseNotUtf8(self, text) ==
    IF text.ok THEN text
    ELSE Err([status |-> self.status, content_type |-> self.content_type,
              error |-> text.e])

assume_utf8(self) == DockerEngineResponseNotUtf8(self, from_utf8(self.body))

\* an assert_content_type whose error also tells the status of the response
assert_content_type_with_status(self, expected) ==
    IF self.content_type = Some(expected) THEN Ok(self)
    ELSE Err([tag |-> "UnexpectedResponseContentType", expected |-> expected,
              actual |-> self.content_type, status |-> self.status])

assert_content_type(self, expected) ==
    IF self.content_type = Some(expected) THEN Ok(self)
    ELSE Err(UnexpectedResponseContentType(expected, self.content_type))

\* an assume_content_type that takes an absent content type for a wrong one
assume_content_type_strict(self, expected) == assert_content_type(self, expected)

assume_content_type(self, expected) ==
    IF ~self.content_type.some THEN Ok(self)
    ELSE assert_content_type(self, expected)

\* a JsonText that reports bytes that are not UTF-8 as text that is not JSON
JsonText_as_json(text) ==
    Traced(IF text.ok THEN text
           ELSE Err(UnparseableJsonResponse(text.e.status, <<>>, SerdeError)),
           <<"assert_content_type", "assume_utf8">>)

\* .map_err(DecUseError::from_not_utf8)
JsonText(text) ==
    Traced(IF text.ok THEN text ELSE Err(from_not_utf8(text.e)),
           <<"assert_content_type", "assume_utf8">>)

\* .assert_content_type(content_type::JSON)?
JsonChecked(checked) ==
    IF ~checked.ok THEN Traced(checked, <<"assert_content_type">>)
    ELSE JsonText(assume_utf8(checked.v))

\* an assert_json_text that does not check the content type
assert_json_text_unchecked(self) == JsonText(assume_utf8(self))

assert_json_text(self) == JsonChecked(assert_content_type(self, JSON))

parsing_error(request_uri, status, body, e) == UnparseableJsonResponse(status, body, e)

\* a loop that returns what it has when an element fails
RECURSIVE CollectStream_partial(_, _, _, _)
CollectStream_partial(self, body, parser, result) ==
    IF parser = <<>> THEN Ok(result)
    ELSE IF ~Head(parser).ok THEN Ok(result)
    ELSE CollectStream_partial(self, body, Tail(parser), Append(result, Head(parser).v))

\* the loop of parse_stream over the Results the parser yields
RECURSIVE CollectStream(_, _, _, _)
CollectStream(self, body, parser, result) ==
    IF parser = <<>> THEN Ok(result)
    ELSE IF ~Head(parser).ok
    THEN Err(parsing_error(self.request_uri, self.status, body, Head(parser).e))
    ELSE CollectStream(self, body, Tail(parser), Append(result, Head(parser).v))

\* let body = self.assert_json_text()?; and the rest of parse_stream
ParseStreamBody(self, A, body) ==
    IF ~body.r.ok THEN body
    ELSE Traced(CollectStream(self, body.r.v, StreamDeserializer(A, body.r.v, 1), <<>>),
                Append(body.steps, "from_str"))

parse_stream(self, A) == ParseStreamBody(self, A, assert_json_text(self))

\* parse_result.map_err(|e| Self::parsing_error(request_uri, status, body, e))
ParseResult(self, body, parse_result) ==
    Traced(IF parse_result.ok THEN parse_result
           ELSE Err(parsing_error(self.request_uri, self.status, body.r.v, parse_result.e)),
           Append(body.steps, "from_str"))

\* let body = self.assert_json_text()?; and the rest of parse
ParseBody(self, A, body) ==
    IF ~body.r.ok THEN body ELSE ParseResult(self, body, from_str(A, body.r.v))

parse(self, A) == ParseBody(self, A, assert_json_text(self))

\* a RejectedOf that makes up a message when the body gave none
RejectedOf_fabricates(status, parse_result) ==
    Traced(IF ~parse_result.r.ok THEN Rejected(status, <<>>)
           ELSE Rejected(status, parse_result.r.v.message),
           parse_result.steps)

\* match parse_result { Err(e) => e, Ok(parsed) => Rejected { status, message } }
RejectedOf(status, parse_result) ==
    Traced(IF ~parse_result.r.ok THEN parse_result.r.e
           ELSE Rejected(status, parse_result.r.v.message),
           parse_result.steps)

unexpected_status(self) == RejectedOf(self.status, parse(self, "ErrorResponse"))

\* a NotFoundOf that makes up a message when the body gave none
NotFoundOf_fabricates(parsed) ==
    Traced(IF ~parsed.r.ok THEN Ok(NotFound(<<>>)) ELSE Ok(NotFound(parsed.r.v.message)),
           parsed.steps)

\* let parsed: ErrorResponse = self.parse()?; NotFound { message: parsed.message }
NotFoundOf(parsed) ==
    Traced(IF ~parsed.r.ok THEN Err(parsed.r.e) ELSE Ok(NotFound(parsed.r.v.message)),
           parsed.steps)

\* Ok(error): what the closures of parse_other_*_response return for an error
\* they made without a `?`
OkOf(error) == Traced(Ok(error.r), error.steps)

Converged(result) == Traced(converge(result.r), result.steps)

\* an ItemResponseError without the arm of NOT_IMPLEMENTED
ItemResponseError_no501(self) ==
    CASE self.status = NOT_FOUND -> NotFoundOf(parse(self, "ErrorResponse"))
      [] OTHER -> OkOf(unexpected_status(self))

\* the closure `parse` of parse_other_item_response
ItemResponseError(self) ==
    CASE self.status = NOT_FOUND -> NotFoundOf(parse(self, "ErrorResponse"))
      [] self.status = NOT_IMPLEMENTED ->
            Traced(Ok(ApiNotImplemented(self.request_uri)), <<>>)
      [] OTHER -> OkOf(unexpected_status(self))

parse_other_item_response(self) == Converged(ItemResponseError(self))

\* a ListResponseError that parses the body of a NOT_FOUND
ListResponseError_parses404(self) ==
    CASE self.status = NOT_FOUND -> NotFoundOf(parse(self, "ErrorResponse"))
      [] self.status = NOT_IMPLEMENTED ->
            Traced(Ok(ApiNotImplemented(self.request_uri)), <<>>)
      [] OTHER -> OkOf(unexpected_status(self))

\* the closure `parse` of parse_other_list_response
ListResponseError(self) ==
    CASE self.status = NOT_FOUND -> Traced(Ok(ApiNotFound(self.request_uri)), <<>>)
      [] self.status = NOT_IMPLEMENTED ->
            Traced(Ok(ApiNotImplemented(self.request_uri)), <<>>)
      [] OTHER -> OkOf(unexpected_status(self))

\* a parse_other_list_response that classifies as item mode does
parse_other_list_response_as_item(self) == Converged(ItemResponseError(self))

parse_other_list_response(self) == Converged(ListResponseError(self))

ErrOf(error) == Traced(Err(error.r), error.steps)

\* an assert_item_status_in that looks at the first expected status only
assert_item_status_in_first(self, expected) ==
    IF self.status = (CHOOSE s \in expected : \A t \in expected : s <= t)
    THEN Traced(Ok(self), <<>>)
    ELSE ErrOf(parse_other_item_response(self))

\* `expected` is the set of the statuses of the slice
assert_item_status_in(self, expected) ==
    IF self.status \in expected THEN Traced(Ok(self), <<>>)
    ELSE ErrOf(parse_other_item_response(self))

assert_item_status(self, expected) == assert_item_status_in(self, {expected})

assert_list_status(self, expected) ==
    IF self.status = expected THEN Traced(Ok(self), <<>>)
    ELSE ErrOf(parse_other_list_response(self))

\* self.assert_item_status_in(expected)?; Ok(())
UnitOf(item) == IF ~item.r.ok THEN item ELSE Traced(Ok(Unit), item.steps)

\* an assert_unit_status_in that classifies an unexpected status as list mode does
assert_unit_status_in_as_list(self, expected) ==
    IF self.status \in expected THEN Traced(Ok(Unit), <<>>)
    ELSE ErrOf(parse_other_list_response(self))

assert_unit_status_in(self, expected) == UnitOf(assert_item_status_in(self, expected))

assert_unit_status(self, expected) == assert_unit_status_in(self, {expected})

\* let lines = StreamLine::read_all(cursor)?; Ok(lines)
LogLines(lines) ==
    Traced(IF lines.ok THEN lines ELSE Err(StreamLineRead(lines.e)),
           <<"assume_content_type", "read_all">>)

\* response.assume_content_type(content_type::STREAM)?
LogChecked(checked) ==
    IF ~checked.ok THEN Traced(checked, <<"assume_content_type">>)
    ELSE LogLines(StreamLine_read_all(checked.v.body))

\* src/src/client/shared.rs
parse_container_log(response) == LogChecked(assume_content_type(response, STREAM))

----------------------------------------------------------------------------
(* The HTTP server the client talks to, set up as the tests set mockito    *)
(* up: a status, a Content-Type header and a body, the body written down   *)
(* as a recipe so that what was served is known apart from what is parsed. *)

MaxElems == 2

MaxFrames == 1

Q == "\""

Uris == {"http://h/v1.41/images/json", "http://h/v1.41/containers/x/json"}

Statuses == {200, 204, 404, 409, 501}

\* a header value is its text and whether every byte of it is visible ASCII
HeaderValues ==
    {[text |-> JSON, visible_ascii |-> TRUE],
     [text |-> STREAM, visible_ascii |-> TRUE],
     [text |-> "text/html", visible_ascii |-> TRUE],
     [text |-> "text/html; charset=\\xE9", visible_ascii |-> FALSE]}

Headers == {None} \cup {Some(h) : h \in HeaderValues}

\* "gone" and "no é"
Messages == {T(<<"g", "o", "n", "e">>), <<110, 111, 32, 233>>}

Layouts == {"compact", "spaced", "extra"}

ElemKinds == {"stream", "error", "wrongtype", "bad"}

FrameKinds == {"out", "err"}

SeqsUpTo(S, n) == UNION {[1..k -> S] : k \in 0..n}

BodyRecipes ==
    {[kind |-> k] : k \in {"empty", "html", "notjson", "nomessage", "wrongtype",
                           "badutf8", "badutf8json", "trailing"}}
    \cup {[kind |-> "error", message |-> m, layout |-> l] : m \in Messages, l \in Layouts}
    \cup {[kind |-> "stream", elems |-> es] : es \in SeqsUpTo(ElemKinds, MaxElems)}
    \cup {[kind |-> "frames", frames |-> fs, cut |-> c] :
            fs \in SeqsUpTo(FrameKinds, MaxFrames), c \in 0..1}

\* the UTF-8 bytes of a text of code points below 2048
RECURSIVE Utf8Encode(_)
Utf8Encode(text) ==
    IF text = <<>> THEN <<>>
    ELSE (IF Head(text) < 128 THEN <<Head(text)>>
          ELSE <<192 + (Head(text) \div 64), 128 + (Head(text) % 64)>>)
         \o Utf8Encode(Tail(text))

MessageKey == T(<<Q, "m", "e", "s", "s", "a", "g", "e", Q>>)

Quoted(text) == T(<<Q>>) \o text \o T(<<Q>>)

\* `message` is the message as it goes into the body: its bytes, or its text
ErrorBody(message, layout) ==
    CASE layout = "compact" ->
            T(<<"{">>) \o MessageKey \o T(<<":">>) \o Quoted(message) \o T(<<"}">>)
      [] layout = "spaced" ->
            T(<<" ", "{", " ">>) \o MessageKey \o T(<<" ", ":", " ">>) \o Quoted(message)
            \o T(<<" ", "}", "\n">>)
      [] layout = "extra" ->
            T(<<"{", Q, "c", "o", "d", "e", Q, ":", "7", ",">>) \o MessageKey
            \o T(<<":">>) \o Quoted(message) \o T(<<"}">>)

ElemText(kind) ==
    CASE kind = "stream" -> T(<<"{", Q, "s", "t", "r", "e", "a", "m", Q, ":", Q, "a", Q, "}">>)
      [] kind = "error" ->
            T(<<"{", Q, "e", "r", "r", "o", "r", Q, ":", Q, "b", Q, ",",
                Q, "e", "r", "r", "o", "r", "D", "e", "t", "a", "i", "l", Q, ":", "{">>)
            \o MessageKey \o T(<<":", Q, "b", Q, "}", "}">>)
      [] kind = "wrongtype" -> T(<<"{", Q, "s", "t", "r", "e", "a", "m", Q, ":", "5", "}">>)
      [] kind = "bad" -> T(<<"{", Q, "s", "t", "r", "e", "a", "m", Q, ":">>)

\* the value an element of a build stream stands for, None for one that stands for none
ElemItem(kind) ==
    CASE kind = "stream" ->
            Some([stream |-> Some(T(<<"a">>)), error_detail |-> None, error |-> None])
      [] kind = "error" ->
            Some([stream |-> None, error_detail |-> Some([message |-> T(<<"b">>)]),
                  error |-> Some(T(<<"b">>))])
      [] OTHER -> None

FrameLine(kind) ==
    IF kind = "out" THEN [kind |-> [kind |-> "StdOut"], text |-> T(<<"H", "i">>)]
    ELSE [kind |-> [kind |-> "StdErr"], text |-> <<>>]

FrameBytes(kind) ==
    IF kind = "out" THEN <<1, 0, 0, 0, 0, 0, 0, 2>> \o T(<<"H", "i">>)
    ELSE <<2, 0, 0, 0, 0, 0, 0, 0>>

\* the tags of a listed image by its kind; those of "untagged" are null
ImageTags(kind) ==
    CASE kind = "two" -> <<T(<<"f", "o", "o", ":", "b", "a", "z">>),
                           T(<<"f", "o", "o", ":", "b", "a", "r">>)>>
      [] kind = "near" -> <<T(<<"f", "o", "o", ":", "b", "a", "r", "x">>)>>
      [] OTHER -> <<>>

RepoTagsText(kind) ==
    IF kind = "untagged" THEN T(<<"n", "u", "l", "l">>)
    ELSE T(<<"[">>)
         \o Concat([i \in DOMAIN ImageTags(kind) |->
                       (IF i > 1 THEN T(<<",">>) ELSE <<>>) \o Quoted(ImageTags(kind)[i])])
         \o T(<<"]">>)

\* an element of the list of images as the engine writes it; a "broken" one
\* lacks its Size
ImageText(kind) ==
    T(<<"{", Q, "C", "o", "n", "t", "a", "i", "n", "e", "r", "s", Q, ":", "-", "1", ",",
        Q, "C", "r", "e", "a", "t", "e", "d", Q, ":", "1", "7", ",",
        Q, "I", "d", Q, ":", Q, "s", "h", "a", "2", "5", "6", ":", "a", Q, ",",
        Q, "L", "a", "b", "e", "l", "s", Q, ":", "n", "u", "l", "l", ",",
        Q, "P", "a", "r", "e", "n", "t", "I", "d", Q, ":", Q, Q, ",",
        Q, "R", "e", "p", "o", "D", "i", "g", "e", "s", "t", "s", Q, ":", "[", "]", ",",
        Q, "R", "e", "p", "o", "T", "a", "g", "s", Q, ":">>)
    \o RepoTagsText(kind)
    \o T(<<",", Q, "S", "h", "a", "r", "e", "d", "S", "i", "z", "e", Q, ":", "-", "1">>)
    \o (IF kind = "broken" THEN <<>> ELSE T(<<",", Q, "S", "i", "z", "e", Q, ":", "7">>))
    \o T(<<",", Q, "V", "i", "r", "t", "u", "a", "l", "S", "i", "z", "e", Q, ":", "7", "}">>)

\* the bytes without the last n of them
CutEnd(bytes, n) == SubSeq(bytes, 1, IF Len(bytes) > n THEN Len(bytes) - n ELSE Len(bytes))

\* the body of a recipe; `message` is its message as bytes or as text
Render(recipe, message) ==
    CASE recipe.kind = "empty" -> <<>>
      [] recipe.kind = "html" -> T(<<"<", "h", "t", "m", "l", ">">>)
      [] recipe.kind = "notjson" -> T(<<"n", "o", "t", " ", "j", "s", "o", "n">>)
      [] recipe.kind = "nomessage" -> T(<<"{", Q, "e", "r", "r", "o", "r", Q, ":", Q, "a", Q, "}">>)
      [] recipe.kind = "wrongtype" -> T(<<"{">>) \o MessageKey \o T(<<":", "7", "}">>)
      [] recipe.kind = "badutf8" -> <<195, 40>>
      [] recipe.kind = "badutf8json" ->
            T(<<"{">>) \o MessageKey \o T(<<":", Q>>) \o <<195, 40>> \o T(<<Q, "}">>)
      [] recipe.kind = "trailing" -> ErrorBody(T(<<"a">>), "compact") \o T(<<" ", "{">>)
      [] recipe.kind = "error" -> ErrorBody(message, recipe.layout)
      [] recipe.kind = "stream" ->
            Concat([i \in DOMAIN recipe.elems |-> ElemText(recipe.elems[i]) \o T(<<"\n">>)])
      [] recipe.kind = "images" ->
            T(<<"[">>)
            \o Concat([i \in DOMAIN recipe.images |->
                          (IF i > 1 THEN T(<<",">>) ELSE <<>>) \o ImageText(recipe.images[i])])
            \o T(<<"]">>)
      [] recipe.kind = "null" -> T(<<"n", "u", "l", "l">>)
      [] recipe.kind = "changes" ->
            T(<<"[", "{", Q, "P", "a", "t", "h", Q, ":", Q, "/", "a", Q, ",",
                Q, "K", "i", "n", "d", Q, ":", "1", "}", "]">>)
      [] recipe.kind = "frames" ->
            CutEnd(Concat([i \in DOMAIN recipe.frames |-> FrameBytes(recipe.frames[i])]),
                   recipe.cut)

\* the bytes the server sends
ServedBody(recipe) ==
    Render(recipe, IF recipe.kind = "error" THEN Utf8Encode(recipe.message) ELSE <<>>)

Mocks ==
    {[fault |-> "none", uri |-> u, status |-> s, header |-> h, body |-> b] :
        u \in Uris, s \in Statuses, h \in Headers, b \in BodyRecipes}
    \cup {[fault |-> f, uri |-> u, status |-> 200, header |-> None, body |-> [kind |-> "empty"]] :
            f \in {"send", "body"}, u \in Uris}

----------------------------------------------------------------------------
(* The operations *)

ExpectedStatuses == {200, 404}

ExpectedSets == {{200}, {204, 304}, {200, 404}, {201, 501}}

ContentTypes == {JSON, STREAM}

Targets == {"ErrorResponse", "BuildImageResponseStreamItem"}

NoOutcome == [ok |-> FALSE, e |-> [tag |-> "none"]]

NoMock == [fault |-> "unset"]

Init ==
    /\ mock = NoMock
    /\ raw = None
    /\ op = "new"
    /\ arg = {}
    /\ input = None
    /\ outcome = NoOutcome
    /\ steps = <<>>

\* DockerEngineHttpRequest::execute: [r |-> Result<DockerEngineHttpResponse>]
execute(uri, m) ==
    IF m.fault = "send" THEN Err([tag |-> "HttpClientError2"])
    ELSE IF m.fault = "body" THEN Err([tag |-> "HttpClientError"])
    ELSE Ok(DockerEngineHttpResponse(
                uri,
                m.status,
                IF ~m.header.some THEN None
                ELSE IF m.header.v.visible_ascii THEN Some(m.header.v.text)
                ELSE None,
                ServedBody(m.body)))

Received(result) == IF result.ok THEN Some(result.v) ELSE None

\* a client operation sends its one request; the client keeps nothing from
\* one operation to the next
Execute ==
    \E m \in Mocks :
        /\ op = "new"
        /\ mock' = m
        /\ raw' = Received(execute(m.uri, m))
        /\ op' = "execute"
        /\ arg' = {}
        /\ input' = None
        /\ outcome' = execute(m.uri, m)
        /\ steps' = <<>>

\* the caller applies an operation to the response it holds; every operation
\* takes the response by value, and the caller holds on to what Ok returns
Apply(name, a, result, kept) ==
    /\ raw.some
    /\ op' = name
    /\ arg' = a
    /\ input' = raw
    /\ outcome' = result.r
    /\ steps' = result.steps
    /\ raw' = IF kept /\ result.r.ok THEN Some(result.r.v) ELSE None
    /\ UNCHANGED mock

AssertItemStatus ==
    \E expected \in ExpectedStatuses :
        Apply("assert_item_status", expected, assert_item_status(raw.v, expected), TRUE)

AssertItemStatusIn ==
    \E expected \in ExpectedSets :
        Apply("assert_item_status_in", expected, assert_item_status_in(raw.v, expected), TRUE)

AssertListStatus ==
    \E expected \in ExpectedStatuses :
        Apply("assert_list_status", expected, assert_list_status(raw.v, expected), TRUE)

AssertUnitStatus ==
    \E expected \in ExpectedStatuses :
        Apply("assert_unit_status", expected, assert_unit_status(raw.v, expected), FALSE)

AssertUnitStatusIn ==
    \E expected \in ExpectedSets :
        Apply("assert_unit_status_in", expected, assert_unit_status_in(raw.v, expected), FALSE)

AssertContentType ==
    \E expected \in ContentTypes :
        Apply("assert_content_type", expected,
              Traced(assert_content_type(raw.v, expected), <<"assert_content_type">>), TRUE)

AssumeContentType ==
    \E expected \in ContentTypes :
        Apply("assume_content_type", expected,
              Traced(assume_content_type(raw.v, expected), <<"assume_content_type">>), TRUE)

Parse ==
    \E A \in Targets : Apply("parse", A, parse(raw.v, A), FALSE)

ParseStream ==
    \E A \in Targets : Apply("parse_stream", A, parse_stream(raw.v, A), FALSE)

ParseContainerLog ==
    Apply("parse_container_log", STREAM, parse_container_log(raw.v), FALSE)

\* the client operation returns to its caller: the response, if still held, is dropped
Return ==
    /\ op # "new"
    /\ mock' = NoMock
    /\ raw' = None
    /\ op' = "new"
    /\ arg' = {}
    /\ input' = None
    /\ outcome' = NoOutcome
    /\ steps' = <<>>

Next ==
    \/ Execute
    \/ Return
    \/ AssertItemStatus
    \/ AssertItemStatusIn
    \/ AssertListStatus
    \/ AssertUnitStatus
    \/ AssertUnitStatusIn
    \/ AssertContentType
    \/ AssumeContentType
    \/ Parse
    \/ ParseStream
    \/ ParseContainerLog

Spec == Init /\ [][Next]_vars

----------------------------------------------------------------------------
(* A panic: the call does not return, the thread unwinds.                  *)

Panic(message) == [panic |-> message]

Aborted(result) == "panic" \in DOMAIN result

Returned(result) == "ok" \in DOMAIN result

----------------------------------------------------------------------------
(* split_log_container_timestamp.  A &str is a sequence of bytes that is   *)
(* valid UTF-8; str::len, str::split_at and the range index count bytes.   *)

TIMESTAMP_LENGTH == 30

\* str::is_char_boundary
is_char_boundary(s, index) ==
    IF index = 0 THEN TRUE
    ELSE IF index >= Len(s) THEN index = Len(s)
    ELSE ~IsCont(s[index + 1])

\* str::split_at
split_at(s, mid) ==
    IF is_char_boundary(s, mid)
    THEN Ok(<<SubSeq(s, 1, mid), SubSeq(s, mid + 1, Len(s))>>)
    ELSE Panic("failed to slice string")

\* &s[begin..]
SliceFrom(s, begin) ==
    IF is_char_boundary(s, begin)
    THEN Ok(SubSeq(s, begin + 1, Len(s)))
    ELSE Panic("byte index is not a char boundary")

AllDigits(s, from, to) == \A i \in from..to : IsDigit(s[i])

Num2(s, i) == (s[i] - 48) * 10 + (s[i + 1] - 48)

Num4(s, i) == Num2(s, i) * 100 + Num2(s, i + 2)

Num9(s, i) == Num4(s, i) * 100000 + Num4(s, i + 4) * 10 + (s[i + 8] - 48)

is_leap_year(year) == year % 4 = 0 /\ (year % 100 # 0 \/ year % 400 = 0)

days_in_month(year, month) ==
    CASE month \in {4, 6, 9, 11} -> 30
      [] month = 2 -> IF is_leap_year(year) THEN 29 ELSE 28
      [] OTHER -> 31

\* the shape 2022-11-28T00:34:45.107901180Z: digits, and - - T : : . Z between
StampShaped(s) ==
    /\ Len(s) = 30
    /\ AllDigits(s, 1, 4) /\ s[5] = 45
    /\ AllDigits(s, 6, 7) /\ s[8] = 45
    /\ AllDigits(s, 9, 10) /\ s[11] = 84
    /\ AllDigits(s, 12, 13) /\ s[14] = 58
    /\ AllDigits(s, 15, 16) /\ s[17] = 58
    /\ AllDigits(s, 18, 19) /\ s[20] = 46
    /\ AllDigits(s, 21, 29) /\ s[30] = 90

StampInRange(s) ==
    /\ Num2(s, 6) \in 1..12
    /\ Num2(s, 9) \in 1..days_in_month(Num4(s, 1), Num2(s, 6))
    /\ Num2(s, 12) < 24
    /\ Num2(s, 15) < 60
    /\ Num2(s, 18) < 60

OffsetDateTime(s) ==
    [year |-> Num4(s, 1), month |-> Num2(s, 6), day |-> Num2(s, 9),
     hour |-> Num2(s, 12), minute |-> Num2(s, 15), second |-> Num2(s, 18),
     nanosecond |-> Num9(s, 21), offset |-> 0]

\* format!: the format string and the texts put into it
Format(fmt, args) == [fmt |-> fmt, args |-> args]

\* OffsetDateTime::parse(text, &Iso8601::DEFAULT), for texts that are a
\* calendar date, T, a time with nine fraction digits and Z, or are not
\* ISO 8601 at all
parse_log_container_timestamp(text) ==
    IF StampShaped(text) /\ StampInRange(text)
    THEN Ok(OffsetDateTime(text))
    ELSE Err(Format("Invalid timestamp '{}': {}", <<text, "time::error::Parse">>))

\* text: if text.is_empty() { text } else { &text[1..] }
SplitText(ts, text, rest) ==
    IF Aborted(rest) THEN rest
    ELSE Ok([timestamp |-> ts, text |-> rest.v])

\* let ts = parse_log_container_timestamp(ts_text)?; Ok(TimestampedLogLine { .. })
SplitParsed(ts, text) ==
    IF ~ts.ok THEN ts
    ELSE SplitText(ts.v, text, IF text = <<>> THEN Ok(text) ELSE SliceFrom(text, 1))

\* let (ts_text, text) = line.split_at(TIMESTAMP_LENGTH)
SplitHalves(halves) ==
    IF Aborted(halves) THEN halves
    ELSE SplitParsed(parse_log_container_timestamp(halves.v[1]), halves.v[2])

split_log_container_timestamp(line) ==
    IF Len(line) >= TIMESTAMP_LENGTH
    THEN SplitHalves(split_at(line, TIMESTAMP_LENGTH))
    ELSE Err(Format("Line does not contain a timestamp prefix: {}", <<line>>))

----------------------------------------------------------------------------
(* The server a client is constructed for: DockerEngineServer,             *)
(* DockerEngineApiBase, DockerEngineApi and DockerEngineClient::with_server *)

\* str::starts_with
starts_with(s, prefix) ==
    Len(s) >= Len(prefix) /\ SubSeq(s, 1, Len(prefix)) = prefix

\* str::strip_prefix
strip_prefix(s, prefix) ==
    IF starts_with(s, prefix) THEN Some(SubSeq(s, Len(prefix) + 1, Len(s))) ELSE None

\* str::trim_end_matches
RECURSIVE trim_end_matches(_, _)
trim_end_matches(s, c) ==
    IF s # <<>> /\ s[Len(s)] = c THEN trim_end_matches(SubSeq(s, 1, Len(s) - 1), c) ELSE s

is_http(uri) ==
    starts_with(uri, T(<<"h", "t", "t", "p", ":", "/", "/">>))
    \/ starts_with(uri, T(<<"h", "t", "t", "p", "s", ":", "/", "/">>))

Base_Http(url) == [tag |-> "Http", url |-> url]

Base_Tcp(display_url, implied_url) ==
    [tag |-> "Tcp", display_url |-> display_url, implied_url |-> implied_url]

Base_Unix(socket) == [tag |-> "Unix", socket |-> socket]

UnsupportedUrlScheme == [tag |-> "UnsupportedUrlScheme"]

NixPlatformFeatureDisabled(path) == [tag |-> "NixPlatformFeatureDisabled", path |-> path]

TlsConnectorError == [tag |-> "TlsConnector"]

strip_unix(uri) ==
    IF starts_with(uri, <<47>>) THEN Some(uri)
    ELSE strip_prefix(uri, T(<<"u", "n", "i", "x", ":", "/", "/">>))

\* select_base keeping tcp:// in the implied URL
SelectNotUnix_keeps_tcp(server, stripped) ==
    IF stripped.some THEN Ok(Base_Tcp(server, server))
    ELSE IF is_http(server) THEN Ok(Base_Http(server))
    ELSE Err(UnsupportedUrlScheme)

\* the arms of select_base once strip_unix gave None
SelectNotUnix(server, stripped) ==
    IF stripped.some
    THEN Ok(Base_Tcp(server, T(<<"h", "t", "t", "p", ":", "/", "/">>) \o stripped.v))
    ELSE IF is_http(server) THEN Ok(Base_Http(server))
    ELSE Err(UnsupportedUrlScheme)

\* the arm of select_base for Some(path): #[cfg(unix)] or #[cfg(not(unix))]
SelectUnix(path, unix) ==
    IF unix THEN Ok(Base_Unix(path)) ELSE Err(NixPlatformFeatureDisabled(path))

SelectStripped(server, path, unix) ==
    IF path.some THEN SelectUnix(path.v, unix)
    ELSE SelectNotUnix(server, strip_prefix(server, T(<<"t", "c", "p", ":", "/", "/">>)))

\* `unix`: whether the build is for a UNIX-like target
select_base(server, unix) == SelectStripped(server, strip_unix(server), unix)

display_url(base) ==
    CASE base.tag = "Http" -> base.url
      [] base.tag = "Tcp" -> base.display_url
      [] base.tag = "Unix" -> base.socket

SchemedUrl(scheme, url) == [scheme |-> scheme, url |-> url]

implied_url(base) ==
    CASE base.tag = "Http" ->
            IF starts_with(base.url, T(<<"h", "t", "t", "p", "s", ":">>))
            THEN SchemedUrl("Https", base.url)
            ELSE SchemedUrl("Http", base.url)
      [] base.tag = "Tcp" -> SchemedUrl("Http", base.implied_url)
      [] base.tag = "Unix" -> SchemedUrl("Unix", base.socket)

HexDigit(n) == IF n < 10 THEN 48 + n ELSE 87 + n

\* hex::encode, as hyperlocal::Uri::new applies it to the socket path
hex_encode(bytes) == Concat([i \in DOMAIN bytes |-> <<HexDigit(bytes[i] \div 16), HexDigit(bytes[i] % 16)>>])

\* hyperlocal::Uri::new(path, ""), as hyper::Uri writes it
hyperlocal_Uri(path) ==
    T(<<"u", "n", "i", "x", ":", "/", "/">>) \o hex_encode(path) \o T(<<":", "0", "/">>)

as_string(base) ==
    CASE base.tag = "Http" -> base.url
      [] base.tag = "Tcp" -> base.implied_url
      [] base.tag = "Unix" -> trim_end_matches(hyperlocal_Uri(base.socket), 47)

DOCKER_ENGINE_VERSION == T(<<"v", "1", ".", "4", "1">>)

DOCKER_ENGINE_VERSION_PATH == <<47>> \o DOCKER_ENGINE_VERSION

DockerEngineApi_new(base) ==
    [base |-> as_string(base) \o DOCKER_ENGINE_VERSION_PATH, display_url |-> display_url(base)]

\* Display for DockerEngineApi
DockerEngineApi_fmt(api) ==
    T(<<"D", "o", "c", "k", "e", "r", " ", "e", "n", "g", "i", "n", "e", " ", "a", "t", " ">>)
    \o api.display_url

\* the hyper client with_server chooses; TlsConnector::new()? may fail
HyperClientFor(schemed, tls) ==
    CASE schemed.scheme = "Http" -> Ok("http")
      [] schemed.scheme = "Https" -> IF tls THEN Ok("https") ELSE Err(TlsConnectorError)
      [] schemed.scheme = "Unix" -> Ok("unix")

ClientOf(base, hyper_client) ==
    IF ~hyper_client.ok THEN hyper_client
    ELSE Ok([http |-> hyper_client.v, registry_auth |-> None, url |-> DockerEngineApi_new(base)])

WithServerBase(base, tls) ==
    IF ~base.ok THEN base ELSE ClientOf(base.v, HyperClientFor(implied_url(base.v), tls))

\* DockerEngineClient::with_server; `tls`: whether the platform gives a TLS connector
with_server(server, unix, tls) == WithServerBase(select_base(server, unix), tls)

NamedPipesNotSupported == [tag |-> "NamedPipesNotSupported"]

\* crate::imp::env::default_server, which builds for Windows do not have
default_server(unix) ==
    IF unix THEN T(<<"/", "v", "a", "r", "/", "r", "u", "n", "/", "d", "o", "c", "k", "e", "r",
                     ".", "s", "o", "c", "k">>)
    ELSE T(<<"t", "c", "p", ":", "/", "/", "l", "o", "c", "a", "l", "h", "o", "s", "t", ":",
             "2", "3", "7", "5">>)

\* DockerEngineClient::new; `docker_host`: the value of DOCKER_HOST, if set
DockerEngineClient_new(docker_host, unix, windows, tls) ==
    IF docker_host.some THEN with_server(docker_host.v, unix, tls)
    ELSE IF windows THEN Err(NamedPipesNotSupported)
    ELSE with_server(default_server(unix), unix, tls)

\* DockerEngineApi::with_server
DockerEngineApi_with_server(server) ==
    IF ~server.ok THEN server ELSE Ok(DockerEngineApi_new(server.v))

\* DockerEngineClient { http: ..(HyperHttpClient::https(tls)), registry_auth: None, url: ..? }
TlsClientOf(url) ==
    IF ~url.ok THEN url ELSE Ok([http |-> "https", registry_auth |-> None, url |-> url.v])

\* DockerEngineClient::with_tls_config
with_tls_config(https_url, unix) ==
    TlsClientOf(DockerEngineApi_with_server(select_base(https_url, unix)))

----------------------------------------------------------------------------
(* The url crate, as UrlBuilder uses it: Url::from_str, Url::join,          *)
(* Url::to_string and query_pairs_mut().append_pair, for URLs written      *)
(* scheme://host[:port]/path?query#fragment, for scheme:opaque, and for    *)
(* references resolved against them.                                       *)

\* the least index from `from` on whose character is one of `chars`, or Len + 1
FirstIn(s, chars, from) ==
    IF \E i \in from..Len(s) : s[i] \in chars
    THEN CHOOSE i \in from..Len(s) : s[i] \in chars /\ \A j \in from..(i - 1) : s[j] \notin chars
    ELSE Len(s) + 1

\* the greatest index whose character is one of `chars`, or 0
LastIn(s, chars) ==
    IF \E i \in 1..Len(s) : s[i] \in chars
    THEN CHOOSE i \in 1..Len(s) : s[i] \in chars /\ \A j \in (i + 1)..Len(s) : s[j] \notin chars
    ELSE 0

From(s, i) == SubSeq(s, i, Len(s))

IsAlpha(c) == (c >= 65 /\ c <= 90) \/ (c >= 97 /\ c <= 122)

IsSchemeChar(c) == IsAlpha(c) \/ IsDigit(c) \/ c \in {43, 45, 46}

ToLower(s) == [i \in DOMAIN s |-> IF s[i] >= 65 /\ s[i] <= 90 THEN s[i] + 32 ELSE s[i]]

UpperHex(n) == IF n < 10 THEN 48 + n ELSE 55 + n

\* percent_encoding: the characters of `set` become %XX, the others are
\* written as `plain` has them (first .. last of the text, halved)
RECURSIVE PctRange(_, _, _, _, _)
PctRange(s, set, plain, first, last) ==
    IF first > last THEN <<>>
    ELSE IF first < last
    THEN PctRange(s, set, plain, first, (first + last) \div 2)
         \o PctRange(s, set, plain, (first + last) \div 2 + 1, last)
    ELSE IF s[first] \in set
    THEN <<37, UpperHex(s[first] \div 16), UpperHex(s[first] % 16)>>
    ELSE <<plain[s[first]]>>

AsWritten == [c \in 0..255 |-> c]

percent_encode(s, set) == PctRange(s, set, AsWritten, 1, Len(s))

CONTROLS == (0..31) \cup (127..255)

FRAGMENT_SET == CONTROLS \cup {32, 34, 60, 62, 96}

QUERY_SET == CONTROLS \cup {32, 34, 35, 60, 62}

SPECIAL_QUERY_SET == QUERY_SET \cup {39}

PATH_SET == QUERY_SET \cup {63, 96, 123, 125}

\* application/x-www-form-urlencoded: what is written as it is
FormUnreserved ==
    (48..57) \cup (65..90) \cup (97..122) \cup {42, 45, 46, 95}

SpaceAsPlus == [c \in 0..255 |-> IF c = 32 THEN 43 ELSE c]

\* form_urlencoded::byte_serialize: a space becomes +, the rest %XX
byte_serialize(s) ==
    PctRange(s, (0..255) \ (FormUnreserved \cup {32}), SpaceAsPlus, 1, Len(s))

SpecialSchemes ==
    {T(<<"h", "t", "t", "p">>), T(<<"h", "t", "t", "p", "s">>), T(<<"w", "s">>),
     T(<<"w", "s", "s">>), T(<<"f", "t", "p">>), T(<<"f", "i", "l", "e">>)}

IsSpecial(scheme) == scheme \in SpecialSchemes

default_port(scheme) ==
    CASE scheme = T(<<"h", "t", "t", "p">>) -> T(<<"8", "0">>)
      [] scheme = T(<<"w", "s">>) -> T(<<"8", "0">>)
      [] scheme = T(<<"h", "t", "t", "p", "s">>) -> T(<<"4", "4", "3">>)
      [] scheme = T(<<"w", "s", "s">>) -> T(<<"4", "4", "3">>)
      [] scheme = T(<<"f", "t", "p">>) -> T(<<"2", "1">>)
      [] OTHER -> <<>>

\* url::ParseError
ParseError(kind) == [tag |-> "ParseError", kind |-> kind]

\* a Url: `host` is the authority as written out (host and port), None when
\* there is none; `path` is the segments, or the one opaque text
Url(scheme, host, opaque, path, query, fragment) ==
    [scheme |-> scheme, host |-> host, opaque |-> opaque, path |-> path,
     query |-> query, fragment |-> fragment]

\* the text with tabs and newlines removed and without the controls and
\* spaces it begins and ends with
WithoutTabs(s) == SelectSeq(s, LAMBDA c : c \notin {9, 10, 13})

Trimmed(s) ==
    IF \A i \in 1..Len(s) : s[i] <= 32 THEN <<>>
    ELSE SubSeq(s, CHOOSE i \in 1..Len(s) : s[i] > 32 /\ \A j \in 1..(i - 1) : s[j] <= 32,
                   CHOOSE i \in 1..Len(s) : s[i] > 32 /\ \A j \in (i + 1)..Len(s) : s[j] <= 32)

\* the end of the scheme the text begins with: the index of its colon, or 0
SchemeEnd(s) ==
    IF /\ s # <<>>
       /\ IsAlpha(s[1])
       /\ FirstIn(s, {58}, 1) <= Len(s)
       /\ \A i \in 2..(FirstIn(s, {58}, 1) - 1) : IsSchemeChar(s[i])
    THEN FirstIn(s, {58}, 1)
    ELSE 0

\* the text before the fragment, the text before the query, the query, the fragment
BeforeFragment(s) == SubSeq(s, 1, FirstIn(s, {35}, 1) - 1)

BeforeQuery(s) == SubSeq(s, 1, FirstIn(BeforeFragment(s), {63}, 1) - 1)

FragmentOf(s) ==
    IF FirstIn(s, {35}, 1) <= Len(s)
    THEN Some(percent_encode(From(s, FirstIn(s, {35}, 1) + 1), FRAGMENT_SET))
    ELSE None

QueryOf(s, special) ==
    IF FirstIn(BeforeFragment(s), {63}, 1) <= Len(BeforeFragment(s))
    THEN Some(percent_encode(From(BeforeFragment(s), FirstIn(BeforeFragment(s), {63}, 1) + 1),
                             IF special THEN SPECIAL_QUERY_SET ELSE QUERY_SET))
    ELSE None

\* the k-th of the parts of `s` between the characters `sep`
SepAt(s, sep, k) ==
    IF k = 0 THEN 0
    ELSE IF k > Cardinality({i \in 1..Len(s) : s[i] = sep}) THEN Len(s) + 1
    ELSE CHOOSE i \in 1..Len(s) :
            s[i] = sep /\ Cardinality({j \in 1..(i - 1) : s[j] = sep}) = k - 1

SplitOn(s, sep) ==
    [k \in 1..(Cardinality({i \in 1..Len(s) : s[i] = sep}) + 1) |->
        SubSeq(s, SepAt(s, sep, k - 1) + 1, SepAt(s, sep, k) - 1)]

SingleDots == {T(<<".">>), T(<<"%", "2", "e">>)}

DoubleDots ==
    {T(<<".", ".">>), T(<<".", "%", "2", "e">>), T(<<"%", "2", "e", ".">>),
     T(<<"%", "2", "e", "%", "2", "e">>)}

\* the path without its last segment, if it has one
shorten_path(path) == IF path = <<>> THEN path ELSE SubSeq(path, 1, Len(path) - 1)

\* the path state: the segments of the text are added to the path, `.` and
\* `..` are resolved, the rest is percent-encoded
RECURSIVE PathState(_, _, _)
PathState(path, segments, k) ==
    IF k > Len(segments) THEN path
    ELSE IF ToLower(segments[k]) \in DoubleDots
    THEN PathState(IF k = Len(segments) THEN Append(shorten_path(path), <<>>)
                   ELSE shorten_path(path),
                   segments, k + 1)
    ELSE IF ToLower(segments[k]) \in SingleDots
    THEN PathState(IF k = Len(segments) THEN Append(path, <<>>) ELSE path, segments, k + 1)
    ELSE PathState(Append(path, percent_encode(segments[k], PATH_SET)), segments, k + 1)

\* the path start state: the path of the text that follows the authority
PathStart(text, special) ==
    IF text = <<>> THEN (IF special THEN <<<<>>>> ELSE <<>>)
    ELSE PathState(<<>>, SplitOn(IF text[1] = 47 THEN Tail(text) ELSE text, 47), 1)

IsPort(text) == \A i \in 1..Len(text) : IsDigit(text[i])

\* the host and port as they are written out, the default port left out
HostPort(scheme, host, port) ==
    IF port = <<>> \/ port = default_port(scheme) THEN host ELSE host \o <<58>> \o port

\* the authority state, for an authority without user and password
Authority(scheme, text, colon) ==
    IF colon = 0
    THEN (IF text = <<>> /\ IsSpecial(scheme) THEN Err(ParseError("EmptyHost"))
          ELSE IF \E i \in 1..Len(text) : text[i] = 32
          THEN Err(ParseError("InvalidDomainCharacter"))
          ELSE Ok(IF IsSpecial(scheme) THEN ToLower(text) ELSE text))
    ELSE IF colon = 1 /\ IsSpecial(scheme) THEN Err(ParseError("EmptyHost"))
    ELSE IF ~IsPort(From(text, colon + 1)) THEN Err(ParseError("InvalidPort"))
    ELSE Ok(HostPort(scheme,
                     IF IsSpecial(scheme) THEN ToLower(SubSeq(text, 1, colon - 1))
                     ELSE SubSeq(text, 1, colon - 1),
                     From(text, colon + 1)))

WithAuthority(scheme, host, pathText, query, fragment) ==
    IF ~host.ok THEN host
    ELSE Ok(Url(scheme, Some(host.v), FALSE, PathStart(pathText, IsSpecial(scheme)),
                query, fragment))

\* the text begins with the authority: it ends at the first /
AfterSlashes(scheme, text, query, fragment) ==
    WithAuthority(scheme,
                  Authority(scheme, SubSeq(text, 1, FirstIn(text, {47}, 1) - 1),
                            LastIn(SubSeq(text, 1, FirstIn(text, {47}, 1) - 1), {58})),
                  From(text, FirstIn(text, {47}, 1)), query, fragment)

\* the text without the slashes it begins with
SkipSlashes(text) ==
    IF \A i \in 1..Len(text) : text[i] = 47 THEN <<>>
    ELSE From(text, CHOOSE i \in 1..Len(text) : text[i] # 47 /\ \A j \in 1..(i - 1) : text[j] = 47)

\* a reference without a scheme, resolved against a base that has a path
Relative(base, text, rest) ==
    IF text # <<>> /\ text[1] = 47
    THEN IF Len(text) >= 2 /\ text[2] = 47
         THEN AfterSlashes(base.scheme,
                           IF IsSpecial(base.scheme) THEN SkipSlashes(text) ELSE From(text, 3),
                           QueryOf(rest, IsSpecial(base.scheme)), FragmentOf(rest))
         ELSE Ok(Url(base.scheme, base.host, FALSE, PathState(<<>>, SplitOn(Tail(text), 47), 1),
                     QueryOf(rest, IsSpecial(base.scheme)), FragmentOf(rest)))
    ELSE IF text # <<>>
    THEN Ok(Url(base.scheme, base.host, FALSE,
                PathState(shorten_path(base.path), SplitOn(text, 47), 1),
                QueryOf(rest, IsSpecial(base.scheme)), FragmentOf(rest)))
    ELSE IF QueryOf(rest, IsSpecial(base.scheme)).some
    THEN Ok(Url(base.scheme, base.host, FALSE, base.path,
                QueryOf(rest, IsSpecial(base.scheme)), FragmentOf(rest)))
    ELSE Ok(Url(base.scheme, base.host, FALSE, base.path, base.query, FragmentOf(rest)))

\* a reference without a scheme
NoScheme(reference, base) ==
    IF ~base.some THEN Err(ParseError("RelativeUrlWithoutBase"))
    ELSE IF base.v.opaque
    THEN (IF reference # <<>> /\ reference[1] = 35
          THEN Ok(Url(base.v.scheme, base.v.host, TRUE, base.v.path, base.v.query,
                      FragmentOf(reference)))
          ELSE Err(ParseError("RelativeUrlWithCannotBeABaseBase")))
    ELSE Relative(base.v, BeforeQuery(reference), reference)

\* a text that begins with a scheme: `text` is what follows the colon, up
\* to the query
WithScheme(scheme, text, rest, base) ==
    IF IsSpecial(scheme)
    THEN IF base.some /\ ~base.v.opaque /\ base.v.scheme = scheme
            /\ ~(text # <<>> /\ text[1] = 47)
         THEN Relative(base.v, text, rest)
         ELSE AfterSlashes(scheme, SkipSlashes(text), QueryOf(rest, TRUE), FragmentOf(rest))
    ELSE IF Len(text) >= 2 /\ text[1] = 47 /\ text[2] = 47
    THEN AfterSlashes(scheme, From(text, 3), QueryOf(rest, FALSE), FragmentOf(rest))
    ELSE IF text # <<>> /\ text[1] = 47
    THEN Ok(Url(scheme, None, FALSE, PathState(<<>>, SplitOn(Tail(text), 47), 1),
                QueryOf(rest, FALSE), FragmentOf(rest)))
    ELSE Ok(Url(scheme, None, TRUE, <<percent_encode(text, CONTROLS)>>,
                QueryOf(rest, FALSE), FragmentOf(rest)))

ParseTrimmed(reference, base) ==
    IF SchemeEnd(reference) > 0
    THEN WithScheme(ToLower(SubSeq(reference, 1, SchemeEnd(reference) - 1)),
                    BeforeQuery(From(reference, SchemeEnd(reference) + 1)),
                    From(reference, SchemeEnd(reference) + 1), base)
    ELSE NoScheme(reference, base)

\* Url::options().base_url(base).parse(reference)
Url_parse(reference, base) == ParseTrimmed(Trimmed(WithoutTabs(reference)), base)

Url_from_str(reference) == Url_parse(reference, None)

Url_join(url, reference) == Url_parse(reference, Some(url))

PathText(url) ==
    IF url.opaque THEN url.path[1]
    ELSE Concat([i \in DOMAIN url.path |-> <<47>> \o url.path[i]])

\* Url::to_string
Url_to_string(url) ==
    url.scheme \o <<58>>
    \o (IF url.host.some THEN <<47, 47>> \o url.host.v ELSE <<>>)
    \o PathText(url)
    \o (IF url.query.some THEN <<63>> \o url.query.v ELSE <<>>)
    \o (IF url.fragment.some THEN <<35>> \o url.fragment.v ELSE <<>>)

\* url.query_pairs_mut().append_pair(name, value)
append_pair(url, name, value) ==
    [url EXCEPT !.query =
        Some((IF url.query.some /\ url.query.v # <<>> THEN url.query.v \o <<38>> ELSE <<>>)
             \o byte_serialize(name) \o <<61>> \o byte_serialize(value))]

----------------------------------------------------------------------------
(* UrlBuilder and UrlQueryBuilder *)

UrlBuilder_from_str(value) == Url_from_str(value)

\* str::ends_with
ends_with(s, c) == s # <<>> /\ s[Len(s)] = c

\* join that leaves the base as the url crate reads it
UrlBuilder_join_as_url_crate(builder, path) == Url_join(builder, path)

\* the arm of join for a base that does not end with a slash
JoinSlashed(slashed, path) == IF ~slashed.ok THEN slashed ELSE Url_join(slashed.v, path)

UrlBuilder_join(builder, path) ==
    IF ends_with(Url_to_string(builder), 47)
    THEN Url_join(builder, path)
    ELSE JoinSlashed(Url_from_str(Url_to_string(builder) \o <<47>>), path)

\* .join(..)? after a step that may have failed
ThenJoin(builder, path) == IF ~builder.ok THEN builder ELSE UrlBuilder_join(builder.v, path)

\* builder.join(S1)?.join(S2)? ..
RECURSIVE JoinAll(_, _)
JoinAll(builder, segments) ==
    IF segments = <<>> THEN builder
    ELSE JoinAll(ThenJoin(builder, Head(segments)), Tail(segments))

UrlQueryBuilder_append(query, name, value) == append_pair(query, name, value)

UrlQueryBuilder_option(query, name, value) ==
    IF value.some THEN UrlQueryBuilder_append(query, name, value.v) ELSE query

----------------------------------------------------------------------------
(* serde_json::to_string for the values that go into a query, and the URL  *)
(* builders of DockerEngineApi that use them.  A HashMap is its entries    *)
(* and the order its iterator visits the keys in, which its hasher's      *)
(* random state decides.                                                   *)

HashMap(entries, order) == [entries |-> entries, order |-> order]

\* the orders an iterator may visit the keys of the entries in
IterationOrders(entries) ==
    {o \in [1..Cardinality(DOMAIN entries) -> DOMAIN entries] :
        \A i, j \in DOMAIN o : o[i] = o[j] => i = j}

HashMap_is_empty(map) == DOMAIN map.entries = {}

\* the text with " and \ escaped (first .. last of it, halved)
RECURSIVE JsonEscaped(_, _, _)
JsonEscaped(s, first, last) ==
    IF first > last THEN <<>>
    ELSE IF first < last
    THEN JsonEscaped(s, first, (first + last) \div 2)
         \o JsonEscaped(s, (first + last) \div 2 + 1, last)
    ELSE IF s[first] \in {34, 92} THEN <<92, s[first]>>
    ELSE <<s[first]>>

\* a JSON string
JsonString(s) == <<34>> \o JsonEscaped(s, 1, Len(s)) \o <<34>>

\* the texts with a comma between them
RECURSIVE CommaSeparated(_)
CommaSeparated(texts) ==
    IF texts = <<>> THEN <<>>
    ELSE IF Len(texts) = 1 THEN texts[1]
    ELSE texts[1] \o <<44>> \o CommaSeparated(Tail(texts))

\* for (k, ov) in labels: k=v, or k alone
LabelElement(k, ov) == IF ov.some THEN JsonString(k \o <<61>> \o ov.v) ELSE JsonString(k)

sz_labels(labels) ==
    <<91>> \o CommaSeparated([i \in DOMAIN labels.order |->
                                LabelElement(labels.order[i], labels.entries[labels.order[i]])])
    \o <<93>>

\* #[derive(Serialize)] for Filters: {"label":[..]}
Filters_to_string(filters) ==
    <<123>> \o JsonString(T(<<"l", "a", "b", "e", "l">>)) \o <<58>> \o sz_labels(filters.labels)
    \o <<125>>

\* serde_json::to_string of a HashMap<String, String>
Map_to_string(map) ==
    <<123>> \o CommaSeparated([i \in DOMAIN map.order |->
                                  JsonString(map.order[i]) \o <<58>>
                                  \o JsonString(map.entries[map.order[i]])])
    \o <<125>>

\* serde_json::to_string of a Vec<String>
Vec_to_string(vec) ==
    <<91>> \o CommaSeparated([i \in DOMAIN vec |-> JsonString(vec[i])]) \o <<93>>

sz_map(value) == IF HashMap_is_empty(value) THEN None ELSE Some(Map_to_string(value))

sz_vec(value) == IF value = <<>> THEN None ELSE Some(Vec_to_string(value))

\* ToString for bool and for the unsigned integers
bool_to_string(b) ==
    IF b THEN T(<<"t", "r", "u", "e">>) ELSE T(<<"f", "a", "l", "s", "e">>)

RECURSIVE usize_to_string(_)
usize_to_string(n) ==
    IF n < 10 THEN <<48 + n>> ELSE usize_to_string(n \div 10) \o <<48 + (n % 10)>>

OptBool(o) == IF o.some THEN Some(bool_to_string(o.v)) ELSE None

OptNum(o) == IF o.some THEN Some(usize_to_string(o.v)) ELSE None

\* UrlQueryBuilder::append_all: one pair for each of the values, in their order
RECURSIVE UrlQueryBuilder_append_all(_, _, _)
UrlQueryBuilder_append_all(query, name, values) ==
    IF values = <<>> THEN query
    ELSE UrlQueryBuilder_append_all(UrlQueryBuilder_append(query, name, Head(values)),
                                    name, Tail(values))

\* a chain of .option(name, value) and .append_all(name, values)
RECURSIVE QueryChain(_, _)
QueryChain(query, calls) ==
    IF calls = <<>> THEN query
    ELSE QueryChain(IF Head(calls).all
                    THEN UrlQueryBuilder_append_all(query, Head(calls).name, Head(calls).value)
                    ELSE UrlQueryBuilder_option(query, Head(calls).name, Head(calls).value),
                    Tail(calls))

Opt(name, value) == [all |-> FALSE, name |-> name, value |-> value]

All(name, values) == [all |-> TRUE, name |-> name, value |-> values]

\* DockerEngineApiBuilderError::Url
BuilderError_Url(e) == [tag |-> "Url", e |-> e]

\* DockerEngineApi::builder
DockerEngineApi_builder(api) == UrlBuilder_from_str(api.base)

\* the builder's path joined, then .query() .. .to_string()
Queried(joined, calls) ==
    IF ~joined.ok THEN Err(BuilderError_Url(joined.e))
    ELSE Ok(Url_to_string(QueryChain(joined.v, calls)))

\* DockerEngineApiPathContainers::list
Containers_list(api, args) ==
    Queried(JoinAll(DockerEngineApi_builder(api),
                    <<T(<<"c", "o", "n", "t", "a", "i", "n", "e", "r", "s">>),
                      T(<<"j", "s", "o", "n">>)>>),
            <<Opt(T(<<"a", "l", "l">>), OptBool(args.all)),
              Opt(T(<<"l", "i", "m", "i", "t">>), OptNum(args.limit)),
              Opt(T(<<"s", "i", "z", "e">>), OptBool(args.size)),
              Opt(T(<<"f", "i", "l", "t", "e", "r", "s">>),
                  IF HashMap_is_empty(args.filters.labels) THEN None
                  ELSE Some(Filters_to_string(args.filters)))>>)

\* DockerEngineApiPathImages::build
Images_build(api, request) ==
    Queried(JoinAll(DockerEngineApi_builder(api), <<T(<<"b", "u", "i", "l", "d">>)>>),
            <<Opt(T(<<"d", "o", "c", "k", "e", "r", "f", "i", "l", "e">>), request.dockerfile),
              All(T(<<"t">>), request.tags),
              Opt(T(<<"e", "x", "t", "r", "a", "h", "o", "s", "t", "s">>), request.extra_hosts),
              Opt(T(<<"r", "e", "m", "o", "t", "e">>), request.remote),
              Opt(T(<<"q">>), OptBool(request.quiet)),
              Opt(T(<<"n", "o", "c", "a", "c", "h", "e">>), OptBool(request.no_cache)),
              Opt(T(<<"c", "a", "c", "h", "e", "f", "r", "o", "m">>), sz_vec(request.cache_from)),
              Opt(T(<<"p", "u", "l", "l">>), request.pull),
              Opt(T(<<"r", "m">>), OptBool(request.remove_intermediates)),
              Opt(T(<<"f", "o", "r", "c", "e", "r", "m">>),
                  OptBool(request.force_remove_intermediates)),
              Opt(T(<<"m", "e", "m", "o", "r", "y">>), OptNum(request.memory_limit)),
              Opt(T(<<"m", "e", "m", "s", "w", "a", "p">>), OptNum(request.memory_and_swap)),
              Opt(T(<<"c", "p", "u", "s", "h", "a", "r", "e", "s">>), OptNum(request.cpu_shares)),
              Opt(T(<<"c", "p", "u", "s", "e", "t", "c", "p", "u", "s">>),
                  OptNum(request.cpu_set_cpus)),
              Opt(T(<<"c", "p", "u", "p", "e", "r", "i", "o", "d">>), OptNum(request.cpu_period)),
              Opt(T(<<"c", "p", "u", "q", "u", "o", "t", "a">>), OptNum(request.cpu_quota)),
              Opt(T(<<"b", "u", "i", "l", "d", "a", "r", "g", "s">>), sz_map(request.build_args)),
              Opt(T(<<"s", "h", "m", "s", "i", "z", "e">>), OptNum(request.shm_size_bytes)),
              Opt(T(<<"s", "q", "u", "a", "s", "h">>), OptBool(request.squash)),
              Opt(T(<<"l", "a", "b", "e", "l", "s">>), sz_map(request.labels)),
              Opt(T(<<"n", "e", "t", "w", "o", "r", "k", "m", "o", "d", "e">>),
                  request.network_mode),
              Opt(T(<<"p", "l", "a", "t", "f", "o", "r", "m">>), request.platform),
              Opt(T(<<"t", "a", "r", "g", "e", "t">>), request.target),
              Opt(T(<<"o", "u", "t", "p", "u", "t", "s">>), request.outputs)>>)

\* DockerEngineApi::at
at(api, path) == api.base \o path

\* DockerEngineApiPathContainers::inspect
Containers_inspect(api, name_or_id, size) ==
    at(api, T(<<"/", "c", "o", "n", "t", "a", "i", "n", "e", "r", "s", "/">>) \o name_or_id
            \o T(<<"/", "j", "s", "o", "n", "?", "s", "i", "z", "e", "=">>)
            \o bool_to_string(size))

\* .query().option("signal", signal).to_string() of a path that was joined
KillQueried(joined, signal) ==
    IF ~joined.ok THEN joined
    ELSE Ok(Url_to_string(UrlQueryBuilder_option(joined.v, T(<<"s", "i", "g", "n", "a", "l">>),
                                                 signal)))

\* DockerEngineApiPathContainers::kill
Containers_kill(api, name_or_id, signal) ==
    KillQueried(JoinAll(DockerEngineApi_builder(api),
                        <<T(<<"c", "o", "n", "t", "a", "i", "n", "e", "r", "s">>),
                          name_or_id,
                          T(<<"k", "i", "l", "l">>)>>),
                signal)

----------------------------------------------------------------------------
(* StreamLine::read_all on its own, given multiplexed streams written down *)
(* frame by frame: a channel byte, three reserved bytes, the length of the *)
(* payload as a big-endian u32, the payload; the last frame may be cut.    *)

MaxStreamFrames == 2

\* the payload of a frame: some bytes, and the text they are in UTF-8
Payloads ==
    {[name |-> "empty", bytes |-> <<>>, utf8 |-> TRUE, text |-> <<>>],
     [name |-> "hi", bytes |-> T(<<"H", "i">>), utf8 |-> TRUE, text |-> T(<<"H", "i">>)],
     [name |-> "accent", bytes |-> <<195, 169>>, utf8 |-> TRUE, text |-> <<233>>],
     [name |-> "long", bytes |-> [i \in 1..256 |-> 97], utf8 |-> TRUE,
      text |-> [i \in 1..256 |-> 97]],
     [name |-> "invalid", bytes |-> <<195, 40>>, utf8 |-> FALSE, text |-> <<>>]}

PayloadOf(name) == CHOOSE p \in Payloads : p.name = name

StreamFrames ==
    {[channel |-> 0, payload |-> "empty"], [channel |-> 1, payload |-> "hi"],
     [channel |-> 2, payload |-> "accent"], [channel |-> 7, payload |-> "hi"],
     [channel |-> 255, payload |-> "empty"], [channel |-> 1, payload |-> "long"],
     [channel |-> 2, payload |-> "invalid"], [channel |-> 1, payload |-> "empty"]}

ReservedBytes == {<<0, 0, 0>>, <<9, 8, 7>>}

\* the four bytes of a length below 2^31, most significant first
U32BE(n) == <<n \div 16777216, (n \div 65536) % 256, (n \div 256) % 256, n % 256>>

StreamFrameBytes(frame, reserved) ==
    <<frame.channel>> \o reserved \o U32BE(Len(PayloadOf(frame.payload).bytes))
    \o PayloadOf(frame.payload).bytes

\* `cut` bytes are missing from the end of the last frame, fewer than it has
StreamRecipes ==
    {r \in [frames : SeqsUpTo(StreamFrames, MaxStreamFrames), reserved : ReservedBytes,
            cut : 0..9] :
        IF r.frames = <<>> THEN r.cut = 0
        ELSE r.cut < 8 + Len(PayloadOf(r.frames[Len(r.frames)].payload).bytes)}

StreamBytes(recipe) ==
    CutEnd(Concat([i \in DOMAIN recipe.frames |->
                      StreamFrameBytes(recipe.frames[i], recipe.reserved)]),
           recipe.cut)

InitStream ==
    /\ mock \in {[fault |-> "stream", stream |-> r] : r \in StreamRecipes}
    /\ raw = None
    /\ op = "new"
    /\ arg = {}
    /\ input = None
    /\ outcome = NoOutcome
    /\ steps = <<>>

\* let lines = StreamLine::read_all(cursor)
ReadAll ==
    /\ op = "new"
    /\ op' = "read_all"
    /\ arg' = {}
    /\ input' = Some(StreamBytes(mock.stream))
    /\ outcome' = StreamLine_read_all(StreamBytes(mock.stream))
    /\ steps' = <<"read_all">>
    /\ UNCHANGED <<mock, raw>>

NextStream == ReadAll

SpecStream == InitStream /\ [][NextStream]_vars

----------------------------------------------------------------------------
(* split_log_container_timestamp on its own, given log lines written down  *)
(* as a head of about thirty bytes and what follows it.                    *)

Dig2(n) == <<48 + (n \div 10), 48 + (n % 10)>>

Dig4(n) == Dig2(n \div 100) \o Dig2(n % 100)

Dig9(n) == Dig4(n \div 100000) \o Dig4((n \div 10) % 10000) \o <<48 + (n % 10)>>

\* calendar dates and times of day as written, and whether there is such a one
Dates ==
    {[year |-> 2022, month |-> 11, day |-> 28, valid |-> TRUE],
     [year |-> 2024, month |-> 2, day |-> 29, valid |-> TRUE],
     [year |-> 1999, month |-> 12, day |-> 31, valid |-> TRUE],
     [year |-> 2023, month |-> 2, day |-> 29, valid |-> FALSE],
     [year |-> 2022, month |-> 13, day |-> 1, valid |-> FALSE],
     [year |-> 2022, month |-> 4, day |-> 31, valid |-> FALSE]}

Clocks ==
    {[hour |-> 0, minute |-> 34, second |-> 45, nanosecond |-> 107901180, valid |-> TRUE],
     [hour |-> 23, minute |-> 59, second |-> 59, nanosecond |-> 999999999, valid |-> TRUE],
     [hour |-> 25, minute |-> 0, second |-> 0, nanosecond |-> 0, valid |-> FALSE]}

\* 2022-11-28T00:34:45.107901180Z
StampBytes(date, clock) ==
    Dig4(date.year) \o <<45>> \o Dig2(date.month) \o <<45>> \o Dig2(date.day) \o <<84>>
    \o Dig2(clock.hour) \o <<58>> \o Dig2(clock.minute) \o <<58>> \o Dig2(clock.second)
    \o <<46>> \o Dig9(clock.nanosecond) \o <<90>>

StampOf(date, clock) ==
    [year |-> date.year, month |-> date.month, day |-> date.day,
     hour |-> clock.hour, minute |-> clock.minute, second |-> clock.second,
     nanosecond |-> clock.nanosecond, offset |-> 0]

Letters(n) == [i \in 1..n |-> 97]

MuskBoughtTwitter ==
    <<109, 117, 115, 107, 32, 98, 111, 117, 103, 104, 116, 32,
      116, 119, 105, 116, 116, 101, 114>>

\* the head of a line: its bytes, how many characters they are, and the
\* timestamp they are, if they are one
LineHeads ==
    {[bytes |-> StampBytes(d, c), chars |-> 30,
      stamp |-> IF d.valid /\ c.valid THEN Some(StampOf(d, c)) ELSE None] :
        d \in Dates, c \in Clocks}
    \cup
    {[bytes |-> <<>>, chars |-> 0, stamp |-> None],
     [bytes |-> MuskBoughtTwitter, chars |-> 19, stamp |-> None],
     [bytes |-> Letters(29), chars |-> 29, stamp |-> None],
     [bytes |-> Letters(30), chars |-> 30, stamp |-> None],
     [bytes |-> Letters(28) \o <<195, 169>>, chars |-> 29, stamp |-> None],
     [bytes |-> Letters(27) \o <<226, 130, 172>>, chars |-> 28, stamp |-> None],
     [bytes |-> Letters(28) \o <<226, 130, 172>>, chars |-> 29, stamp |-> None]}

\* what follows the head: its bytes, how many characters they are, whether
\* they begin with the separating space, and the bytes after their first
\* character
LineTails ==
    {[bytes |-> <<>>, chars |-> 0, separated |-> FALSE, after |-> <<>>],
     [bytes |-> <<32>>, chars |-> 1, separated |-> TRUE, after |-> <<>>],
     [bytes |-> <<32>> \o MuskBoughtTwitter, chars |-> 20, separated |-> TRUE,
      after |-> MuskBoughtTwitter],
     [bytes |-> <<32, 32, 120>>, chars |-> 3, separated |-> TRUE, after |-> <<32, 120>>],
     [bytes |-> <<32, 195, 169>>, chars |-> 2, separated |-> TRUE, after |-> <<195, 169>>],
     [bytes |-> <<120, 121>>, chars |-> 2, separated |-> FALSE, after |-> <<121>>],
     [bytes |-> <<195, 169, 120>>, chars |-> 2, separated |-> FALSE, after |-> <<120>>]}

LineRecipes == [head : LineHeads, tail : LineTails]

LineBytes(recipe) == recipe.head.bytes \o recipe.tail.bytes

InitSplit ==
    /\ mock \in {[fault |-> "line", line |-> r] : r \in LineRecipes}
    /\ raw = None
    /\ op = "new"
    /\ arg = {}
    /\ input = None
    /\ outcome = NoOutcome
    /\ steps = <<>>

\* split_log_container_timestamp(line)
Split ==
    /\ op = "new"
    /\ op' = "split"
    /\ arg' = {}
    /\ input' = Some(LineBytes(mock.line))
    /\ outcome' = split_log_container_timestamp(LineBytes(mock.line))
    /\ steps' = <<"split">>
    /\ UNCHANGED <<mock, raw>>

NextSplit == Split

SpecSplit == InitSplit /\ [][NextSplit]_vars

----------------------------------------------------------------------------
(* DockerEngineClient::with_server on its own, given connection strings    *)
(* written down as what they begin with and the address after it.          *)

\* what a connection string begins with, and the kind of endpoint that is
ServerPrefixes ==
    {[text |-> <<>>, class |-> "bare"],
     [text |-> T(<<"u", "n", "i", "x", ":", "/", "/">>), class |-> "unix"],
     [text |-> T(<<"h", "t", "t", "p", ":", "/", "/">>), class |-> "http"],
     [text |-> T(<<"h", "t", "t", "p", "s", ":", "/", "/">>), class |-> "https"],
     [text |-> T(<<"t", "c", "p", ":", "/", "/">>), class |-> "tcp"],
     [text |-> T(<<"f", "t", "p", ":", "/", "/">>), class |-> "other"],
     [text |-> T(<<"n", "p", "i", "p", "e", ":", "/", "/">>), class |-> "other"],
     [text |-> <<72, 84, 84, 80, 58, 47, 47>>, class |-> "other"],
     [text |-> T(<<" ", "h", "t", "t", "p", ":", "/", "/">>), class |-> "other"],
     [text |-> T(<<"h", "t", "t", "p", ":">>), class |-> "other"],
     [text |-> T(<<"t", "c", "p", ":">>), class |-> "other"],
     [text |-> T(<<"u", "n", "i", "x", ":">>), class |-> "other"]}

\* the address after it, and whether it is an absolute path
ServerAddresses ==
    {[text |-> <<>>, absolute |-> FALSE],
     [text |-> T(<<"f", "o", "o">>), absolute |-> FALSE],
     [text |-> T(<<"a", ":", "1", "2", "3">>), absolute |-> FALSE],
     [text |-> T(<<"/", "s", "o", "m", "e", "/", "p", "a", "t", "h", ".", "s", "o", "c", "k">>),
      absolute |-> TRUE],
     [text |-> T(<<"/">>), absolute |-> TRUE]}

ServerRecipes == [prefix : ServerPrefixes, address : ServerAddresses]

ServerText(recipe) == recipe.prefix.text \o recipe.address.text

InitConnect ==
    /\ mock \in {[fault |-> "server", server |-> r, unix |-> u, tls |-> t] :
                    r \in ServerRecipes, u \in BOOLEAN, t \in BOOLEAN}
    /\ raw = None
    /\ op = "new"
    /\ arg = {}
    /\ input = None
    /\ outcome = NoOutcome
    /\ steps = <<>>

\* DockerEngineClient::with_server(uri_or_unix_socket)
WithServer ==
    /\ op = "new"
    /\ op' = "with_server"
    /\ arg' = {}
    /\ input' = Some(ServerText(mock.server))
    /\ outcome' = with_server(ServerText(mock.server), mock.unix, mock.tls)
    /\ steps' = <<"with_server">>
    /\ UNCHANGED <<mock, raw>>

\* DockerEngineClient::new(), DOCKER_HOST set to the connection string or
\* not set; a build that is not for a UNIX-like target may be for Windows
New ==
    /\ op = "new"
    /\ \E docker_host \in {None, Some(ServerText(mock.server))},
          windows \in (IF mock.unix THEN {FALSE} ELSE BOOLEAN) :
          /\ input' = docker_host
          /\ arg' = {w \in {"windows"} : windows}
          /\ outcome' = DockerEngineClient_new(docker_host, mock.unix, windows, mock.tls)
    /\ op' = "client_new"
    /\ steps' = <<"new">>
    /\ UNCHANGED <<mock, raw>>

\* DockerEngineClient::with_tls_config(https_url, tls)
WithTlsConfig ==
    /\ op = "new"
    /\ op' = "with_tls_config"
    /\ arg' = {}
    /\ input' = Some(ServerText(mock.server))
    /\ outcome' = with_tls_config(ServerText(mock.server), mock.unix)
    /\ steps' = <<"with_tls_config">>
    /\ UNCHANGED <<mock, raw>>

NextConnect == WithServer \/ New \/ WithTlsConfig

SpecConnect == InitConnect /\ [][NextConnect]_vars

----------------------------------------------------------------------------
(* The URL builders on their own: a base and the segments joined onto it,  *)
(* a container-list request, an image-build request; each may be built     *)
(* more than once.                                                         *)

MaxSegments == 2

MaxLabels == 2

MaxCalls == 2

\* base URLs, without the slash they may end with
BaseStems ==
    {T(<<"h", "t", "t", "p", ":", "/", "/", "a">>),
     T(<<"h", "t", "t", "p", ":", "/", "/", "a", "/", "b">>),
     T(<<"h", "t", "t", "p", "s", ":", "/", "/", "t", ".", "o", "r", "g", ":", "1", "2", "3",
         "/", "v", "1", ".", "4", "1">>),
     T(<<"u", "n", "i", "x", ":", "/", "/", "2", "f", ":", "0">>)}

\* c, foo/bar, Hello, World, .., a:b, /x and the empty segment
PathSegments ==
    {T(<<"c">>), T(<<"f", "o", "o", "/", "b", "a", "r">>),
     <<72, 101, 108, 108, 111, 44, 32, 87, 111, 114, 108, 100>>,
     T(<<".", ".">>), T(<<"a", ":", "b">>), T(<<"/", "x">>), <<>>}

JoinRecipes ==
    [fault : {"join"}, stem : BaseStems, slash : BOOLEAN,
     segments : SeqsUpTo(PathSegments, MaxSegments)]

\* the servers the api is constructed for
ApiServers ==
    {T(<<"h", "t", "t", "p", ":", "/", "/", "a", ":", "1", "2", "3">>),
     T(<<"t", "c", "p", ":", "/", "/", "f", "o", "o">>),
     T(<<"/", "s", ".", "s", "o", "c", "k">>)}

ApiOf(server) == DockerEngineApi_new(select_base(server, TRUE).v)

\* the labels a filter may name, each with the value it is given
FilterLabels ==
    (T(<<"f", "o", "o">>) :> Some(T(<<"b", "a", "r">>)))
    @@ (T(<<"q">>) :> None)
    @@ (T(<<"a", " ", "b">>) :> Some(T(<<"1">>)))

\* the labels and the build arguments an image may be built with
ImageLabels == (T(<<"w">>) :> T(<<"x">>)) @@ (T(<<"y">>) :> T(<<"z">>))

BuildArgs == (T(<<"k">>) :> T(<<"v">>)) @@ (T(<<"n">>) :> T(<<"1">>))

\* the maps that hold at most MaxLabels of the entries
MapsOf(entries) ==
    {[k \in keys |-> entries[k]] :
        keys \in {ks \in SUBSET DOMAIN entries : Cardinality(ks) <= MaxLabels}}

ListRecipes ==
    [fault : {"list"}, server : ApiServers, all : {None, Some(TRUE)},
     limit : {None, Some(10)}, labels : MapsOf(FilterLabels)]

BuildRecipes ==
    [fault : {"build"}, server : {T(<<"h", "t", "t", "p", ":", "/", "/", "a">>)},
     dockerfile : {None, Some(T(<<"D", " ", "f">>))},
     tags : {<<>>, <<T(<<"f", "o", "o", ":", "b", "a", "r">>)>>},
     build_args : MapsOf(BuildArgs), labels : MapsOf(ImageLabels)]

ListContainersRequest(recipe, order) ==
    [all |-> recipe.all, limit |-> recipe.limit, size |-> None,
     filters |-> [labels |-> HashMap(recipe.labels, order)]]

BuildImageRequest(recipe, args_order, labels_order) ==
    [dockerfile |-> recipe.dockerfile, tags |-> recipe.tags, extra_hosts |-> None,
     remote |-> None, quiet |-> None, no_cache |-> None, cache_from |-> <<>>,
     pull |-> None, remove_intermediates |-> None, force_remove_intermediates |-> None,
     memory_limit |-> None, memory_and_swap |-> None, cpu_shares |-> None,
     cpu_set_cpus |-> None, cpu_period |-> None, cpu_quota |-> None,
     build_args |-> HashMap(recipe.build_args, args_order), shm_size_bytes |-> None,
     squash |-> None, labels |-> HashMap(recipe.labels, labels_order),
     network_mode |-> None, platform |-> None, target |-> None, outputs |-> None]

BaseText(recipe) == IF recipe.slash THEN recipe.stem \o <<47>> ELSE recipe.stem

\* from_str(base)?.join(S1)?.join(S2)? .. .to_string()
Joined(base, segments) ==
    IF ~JoinAll(UrlBuilder_from_str(base), segments).ok
    THEN JoinAll(UrlBuilder_from_str(base), segments)
    ELSE Ok(Url_to_string(JoinAll(UrlBuilder_from_str(base), segments).v))

\* names and ids of containers as a caller may pass them: abc, a?b, a#b,
\* a&b, "a b", /x and x/y
Identifiers ==
    {T(<<"a", "b", "c">>), T(<<"a", "?", "b">>), T(<<"a", "#", "b">>), T(<<"a", "&", "b">>),
     T(<<"a", " ", "b">>), T(<<"/", "x">>), T(<<"x", "/", "y">>)}

SIGKILL == <<83, 73, 71, 75, 73, 76, 76>>

IdRecipes ==
    [fault : {"id"}, server : ApiServers, id : Identifiers, size : BOOLEAN,
     signal : {None, Some(SIGKILL)}]

InitUrl ==
    /\ mock \in JoinRecipes \cup ListRecipes \cup BuildRecipes \cup IdRecipes
    /\ raw = None
    /\ op = "new"
    /\ arg = {}
    /\ input = None
    /\ outcome = NoOutcome
    /\ steps = <<>>

\* the call before this one, if there was one
Earlier == IF steps = <<>> THEN None ELSE Some(outcome)

\* UrlBuilder::from_str(base)?.join(..)?.. .to_string()
Join ==
    /\ mock.fault = "join"
    /\ Len(steps) < MaxCalls
    /\ op' = "join"
    /\ arg' = {}
    /\ input' = Some(BaseText(mock))
    /\ raw' = Earlier
    /\ outcome' = Joined(BaseText(mock), mock.segments)
    /\ steps' = Append(steps, "join")
    /\ UNCHANGED mock

\* api.containers().list(request), the request built anew for the call
ListContainers ==
    /\ mock.fault = "list"
    /\ Len(steps) < MaxCalls
    /\ \E order \in IterationOrders(mock.labels) :
          /\ input' = Some(ListContainersRequest(mock, order))
          /\ outcome' = Containers_list(ApiOf(mock.server), ListContainersRequest(mock, order))
    /\ op' = "list"
    /\ arg' = {}
    /\ raw' = Earlier
    /\ steps' = Append(steps, "list")
    /\ UNCHANGED mock

\* api.images().build(request), the request built anew for the call
BuildImage ==
    /\ mock.fault = "build"
    /\ Len(steps) < MaxCalls
    /\ \E args_order \in IterationOrders(mock.build_args),
          labels_order \in IterationOrders(mock.labels) :
          /\ input' = Some(BuildImageRequest(mock, args_order, labels_order))
          /\ outcome' = Images_build(ApiOf(mock.server),
                                     BuildImageRequest(mock, args_order, labels_order))
    /\ op' = "build"
    /\ arg' = {}
    /\ raw' = Earlier
    /\ steps' = Append(steps, "build")
    /\ UNCHANGED mock

\* api.containers().inspect(name_or_id, size)
InspectContainer ==
    /\ mock.fault = "id"
    /\ Len(steps) < MaxCalls
    /\ op' = "inspect"
    /\ arg' = {}
    /\ input' = Some(mock.id)
    /\ raw' = Earlier
    /\ outcome' = Ok(Containers_inspect(ApiOf(mock.server), mock.id, mock.size))
    /\ steps' = Append(steps, "inspect")
    /\ UNCHANGED mock

\* api.containers().kill(name_or_id, signal)
KillContainer ==
    /\ mock.fault = "id"
    /\ Len(steps) < MaxCalls
    /\ op' = "kill"
    /\ arg' = {}
    /\ input' = Some(mock.id)
    /\ raw' = Earlier
    /\ outcome' = Containers_kill(ApiOf(mock.server), mock.id, mock.signal)
    /\ steps' = Append(steps, "kill")
    /\ UNCHANGED mock

NextUrl == Join \/ ListContainers \/ BuildImage \/ InspectContainer \/ KillContainer

SpecUrl == InitUrl /\ [][NextUrl]_vars

----------------------------------------------------------------------------
(* DecExec::start, from the request the caller passes to the value, or the *)
(* panic, the caller gets.                                                 *)

\* DockerEngineApiPathExec::start
Exec_start(api, id) ==
    at(api, T(<<"/", "e", "x", "e", "c", "/">>) \o id \o T(<<"/", "s", "t", "a", "r", "t">>))

\* serde_json::to_string of an ExecStartRequest
ExecStartRequest_to_string(request) ==
    T(<<"{", Q, "D", "e", "t", "a", "c", "h", Q, ":">>) \o bool_to_string(request.detach)
    \o T(<<",", Q, "T", "t", "y", Q, ":">>) \o bool_to_string(request.tty) \o T(<<"}">>)

\* http::Uri: a byte no path of a URI may hold
InvalidUriChar(uri) ==
    \E i \in DOMAIN uri : uri[i] <= 32 \/ uri[i] \in {60, 62, 96, 127}

HttpRequestBuilderError == [tag |-> "HttpRequestBuilderError"]

\* DecUseError::Internal, the From<DecLibraryError> of the `?`
Internal(error) == [tag |-> "Internal", error |-> error]

\* Request::post(uri).header(CONTENT_TYPE, JSON).body(json)
build_post_json(uri, body) ==
    IF InvalidUriChar(uri) THEN Err(HttpRequestBuilderError)
    ELSE Ok([method |-> "POST", uri |-> uri, content_type |-> JSON, body |-> body])

\* build_request: Ok(DockerEngineHttpRequest { request: request_from_uri(&u)?, uri: u })
build_request(uri, request) ==
    IF ~request.ok THEN request ELSE Ok([request |-> request.v, uri |-> uri])

post_json(uri, body) == build_request(uri, build_post_json(uri, body))

\* response.assert_item_status(StatusCode::OK)?.parse_with(parse_container_log)
StartParsed(checked) ==
    IF ~checked.ok THEN checked ELSE parse_container_log(checked.v).r

\* let response = ...execute().await?;
StartReceived(response) ==
    IF ~response.ok THEN response ELSE StartParsed(assert_item_status(response.v, 200).r)

\* self.client.http.post_json(uri, &request)?
StartSent(request, served) ==
    IF ~request.ok THEN Err(Internal(request.e))
    ELSE StartReceived(execute(request.v.uri, served))

\* assert!(!request.tty, ..) and the rest of DecExec::start
DecExec_start(api, exec_id, request, served) ==
    IF request.tty
    THEN Panic("Attaching with a TTY is not currently supported by the Rust library.")
    ELSE StartSent(post_json(Exec_start(api, exec_id), ExecStartRequest_to_string(request)),
                   served)

\* the ids of commands: 123 and, as no engine gives one, "a b"
ExecIds == {T(<<"1", "2", "3">>), T(<<"a", " ", "b">>)}

ExecStartRequests == [detach : BOOLEAN, tty : BOOLEAN]

\* what the server answers to the one request of the operation
Served == {m \in Mocks : m.uri = "http://h/v1.41/images/json"}

ExecRecipes ==
    [fault : {"start"}, server : {T(<<"h", "t", "t", "p", ":", "/", "/", "h">>)},
     exec_id : ExecIds, request : ExecStartRequests, served : Served]

InitExec ==
    /\ mock \in ExecRecipes
    /\ raw = None
    /\ op = "new"
    /\ arg = {}
    /\ input = None
    /\ outcome = NoOutcome
    /\ steps = <<>>

\* client.exec(exec_id).start(request).await
Start ==
    /\ mock.fault = "start"
    /\ op = "new"
    /\ op' = "start"
    /\ arg' = {}
    /\ input' = Some(mock.request)
    /\ raw' = None
    /\ outcome' = DecExec_start(ApiOf(mock.server), mock.exec_id, mock.request, mock.served)
    /\ steps' = <<"start">>
    /\ UNCHANGED mock

NextExec == Start

SpecExec == InitExec /\ [][NextExec]_vars

----------------------------------------------------------------------------
(* The requests that carry registry credentials: the headers               *)
(* X-Registry-Auth and X-Registry-Config, from the client's registry_auth  *)
(* to the request that is sent.                                            *)

\* the UTF-8 bytes of a String (first .. last of it, halved)
RECURSIVE as_bytes(_, _, _)
as_bytes(s, first, last) ==
    IF first > last THEN <<>>
    ELSE IF first < last
    THEN as_bytes(s, first, (first + last) \div 2)
         \o as_bytes(s, (first + last) \div 2 + 1, last)
    ELSE IF s[first] < 128 THEN <<s[first]>>
    ELSE <<192 + (s[first] \div 64), 128 + (s[first] % 64)>>

\* the STANDARD alphabet: A-Z a-z 0-9 + /
Base64Char(n) ==
    CASE n < 26 -> 65 + n
      [] n >= 26 /\ n < 52 -> 97 + (n - 26)
      [] n >= 52 /\ n < 62 -> 48 + (n - 52)
      [] n = 62 -> 43
      [] OTHER -> 47

ByteAt(bytes, i) == IF i <= Len(bytes) THEN bytes[i] ELSE 0

\* character j (0..3) of the group of the three bytes from `g`; = pads a
\* group that is short of bytes
Base64Group(bytes, g, j) ==
    CASE j = 0 -> Base64Char(bytes[g] \div 4)
      [] j = 1 -> Base64Char((bytes[g] % 4) * 16 + ByteAt(bytes, g + 1) \div 16)
      [] j = 2 -> IF g + 1 > Len(bytes) THEN 61
                  ELSE Base64Char((bytes[g + 1] % 16) * 4 + ByteAt(bytes, g + 2) \div 64)
      [] OTHER -> IF g + 2 > Len(bytes) THEN 61 ELSE Base64Char(bytes[g + 2] % 64)

\* base64::engine::general_purpose::STANDARD.encode(input)
base64_encode(bytes) ==
    [k \in 1..(4 * ((Len(bytes) + 2) \div 3)) |->
        Base64Group(bytes, 3 * ((k - 1) \div 4) + 1, (k - 1) % 4)]

\* "name":"value"
JsonMember(name, value) == JsonString(name) \o <<58>> \o JsonString(value)

\* a member that #[serde(skip_serializing_if = "Option::is_none")] may leave out
JsonOptMember(name, value) ==
    IF value.some THEN <<44>> \o JsonMember(name, value.v) ELSE <<>>

\* serde_json::to_string of a RegistryAuth
RegistryAuth_to_string(auth) ==
    <<123>> \o JsonMember(T(<<"u", "s", "e", "r", "n", "a", "m", "e">>), auth.username)
    \o <<44>> \o JsonMember(T(<<"p", "a", "s", "s", "w", "o", "r", "d">>), auth.password)
    \o JsonOptMember(T(<<"e", "m", "a", "i", "l">>), auth.email)
    \o JsonOptMember(T(<<"s", "e", "r", "v", "e", "r", "a", "d", "d", "r", "e", "s", "s">>),
                     auth.server)
    \o <<125>>

\* RegistryConfig::with_auth
RegistryConfig_with_auth(auth) == [username |-> auth.username, password |-> auth.password]

\* RegistryAuth::as_config
RegistryAuth_as_config(auth) ==
    IF auth.server.some
    THEN HashMap([k \in {auth.server.v} |-> RegistryConfig_with_auth(auth)], <<auth.server.v>>)
    ELSE HashMap([k \in {} |-> 0], <<>>)

\* serde_json::to_string of a RegistryConfig
RegistryConfig_to_string(config) ==
    <<123>> \o JsonMember(T(<<"u", "s", "e", "r", "n", "a", "m", "e">>), config.username)
    \o <<44>> \o JsonMember(T(<<"p", "a", "s", "s", "w", "o", "r", "d">>), config.password)
    \o <<125>>

\* serde_json::to_string of a HashMap<String, RegistryConfig>
RegistryConfigs_to_string(map) ==
    <<123>> \o CommaSeparated([i \in DOMAIN map.order |->
                                  JsonString(map.order[i]) \o <<58>>
                                  \o RegistryConfig_to_string(map.entries[map.order[i]])])
    \o <<125>>

\* the header value of a JSON text
HeaderOf(json) == base64_encode(as_bytes(json, 1, Len(json)))

\* a variant that sends the JSON text as it is
x_registry_auth_plain(registry_auth) ==
    IF ~registry_auth.some THEN Ok(None)
    ELSE Ok(Some(RegistryAuth_to_string(registry_auth.v)))

\* DockerEngineHttpClient::x_registry_auth; to_string of a struct of Strings
\* has no error to give
x_registry_auth(registry_auth) ==
    IF ~registry_auth.some THEN Ok(None)
    ELSE Ok(Some(HeaderOf(RegistryAuth_to_string(registry_auth.v))))

\* DockerEngineHttpClient::x_registry_config
x_registry_config(registry_config) ==
    IF HashMap_is_empty(registry_config) THEN Ok(None)
    ELSE Ok(Some(HeaderOf(RegistryConfigs_to_string(registry_config))))

Header(name, value) == [name |-> name, value |-> value]

\* builder.header(name, value) if there is a value
OptHeader(name, value) == IF value.some THEN {Header(name, value.v)} ELSE {}

\* Request::<method>(uri) .. .body(body)
Request(method, uri, headers, body) ==
    IF InvalidUriChar(uri) THEN Err(HttpRequestBuilderError)
    ELSE Ok([method |-> method, uri |-> uri, headers |-> headers, body |-> body])

build_get(uri) == Request("GET", uri, {}, <<>>)

\* if let Some(value) = Self::x_registry_auth(registry_auth)? { .. } and the rest
PostWithAuth(uri, value) ==
    IF ~value.ok THEN value
    ELSE Request("POST", uri, OptHeader("X-Registry-Auth", value.v), <<>>)

build_post_with_auth(uri, registry_auth) == PostWithAuth(uri, x_registry_auth(registry_auth))

PostWithAuthConfig(uri, value, content_type, body) ==
    IF ~value.ok THEN value
    ELSE Request("POST", uri,
                 {Header("Content-Type", content_type)}
                 \cup OptHeader("X-Registry-Config", value.v),
                 body)

build_post_with_auth_config(uri, registry_config, content_type, body) ==
    PostWithAuthConfig(uri, x_registry_config(registry_config), content_type, body)

get(uri) == build_request(uri, build_get(uri))

post(uri) == build_request(uri, build_post_with_auth(uri, None))

post_with_auth(uri, registry_auth) ==
    build_request(uri, build_post_with_auth(uri, registry_auth))

\* registry_auth.as_ref().map(|ra| ra.as_config()).unwrap_or_default()
post_with_auth_config(uri, registry_auth, content_type, body) ==
    build_request(uri, build_post_with_auth_config(
                           uri,
                           IF registry_auth.some THEN RegistryAuth_as_config(registry_auth.v)
                           ELSE HashMap([k \in {} |-> 0], <<>>),
                           content_type, body))

----------------------------------------------------------------------------
(* The operations of DecImages and DecContainerFiles from call to result.   *)
(* A client is its registry_auth and its url; `script` is what the server  *)
(* answers to the requests in the order they arrive; an operation gives    *)
(* [r |-> the Result the caller gets, sent |-> the requests that went out].*)

\* application/x-tar, as the text of a header value
TAR == T(<<"a", "p", "p", "l", "i", "c", "a", "t", "i", "o", "n", "/", "x", "-", "t", "a", "r">>)

UrlBuilderParseError(e) == [tag |-> "UrlBuilderParseError", e |-> e]

\* From<DockerEngineApiBuilderError> for DecLibraryError
DecLibraryError_from(other) ==
    IF other.tag = "Url" THEN UrlBuilderParseError(other.e)
    ELSE [tag |-> "UrlBuilderJsonError", e |-> other.e]

\* DockerEngineApiPathImages::create
CreateQueried(joined, calls) ==
    IF ~joined.ok THEN joined ELSE Ok(Url_to_string(QueryChain(joined.v, calls)))

Images_create(api, request) ==
    CreateQueried(
        JoinAll(DockerEngineApi_builder(api),
                <<T(<<"i", "m", "a", "g", "e", "s", "/", "c", "r", "e", "a", "t", "e">>)>>),
        <<Opt(T(<<"f", "r", "o", "m", "I", "m", "a", "g", "e">>), request.from_image),
          Opt(T(<<"f", "r", "o", "m", "S", "r", "c">>), request.from_src),
          Opt(T(<<"r", "e", "p", "o">>), request.repo),
          Opt(T(<<"t", "a", "g">>), request.tag),
          Opt(T(<<"m", "e", "s", "s", "a", "g", "e">>), request.message),
          Opt(T(<<"p", "l", "a", "t", "f", "o", "r", "m">>), request.platform)>>)

\* DockerEngineApiPathImages::list
Images_list(api) == at(api, T(<<"/", "i", "m", "a", "g", "e", "s", "/", "j", "s", "o", "n">>))

\* DockerEngineApiPathImages::push
Images_push(api, repo, tag) ==
    at(api, T(<<"/", "i", "m", "a", "g", "e", "s", "/">>) \o repo
            \o T(<<"/", "p", "u", "s", "h", "?", "t", "a", "g", "=">>) \o tag)

\* DockerEngineApiPathContainerFiles::changes
Files_changes(api, container_name_or_id) ==
    at(api, T(<<"/", "c", "o", "n", "t", "a", "i", "n", "e", "r", "s", "/">>)
            \o container_name_or_id \o T(<<"/", "c", "h", "a", "n", "g", "e", "s">>))

\* a variant that asks again when the connection failed
HyperHttpClient_apply_again(request, served) ==
    [sent |-> IF served.fault = "send" THEN <<request, request>> ELSE <<request>>,
     response |-> served]

\* HyperHttpClient::apply: the request goes to the hyper client, once
HyperHttpClient_apply(request, served) == [sent |-> <<request>>, response |-> served]

\* DockerEngineHttpRequest::execute, after self.client.apply(self.request)
Applied(self, applied) == [r |-> execute(self.uri, applied.response), sent |-> applied.sent]

DockerEngineHttpRequest_execute(self, served) ==
    Applied(self, HyperHttpClient_apply(self.request, served))

\* self.client.http.<method>(uri, ..)?.execute().await: a request that could
\* not be built is not sent
Send(request, script) ==
    IF ~request.ok THEN [r |-> Err(Internal(request.e)), sent |-> <<>>]
    ELSE DockerEngineHttpRequest_execute(request.v, Head(script))

\* `?` on the response, then the rest of the operation
Then(x, rest(_)) == IF ~x.r.ok THEN x ELSE [r |-> rest(x.r.v), sent |-> x.sent]

\* response.assert_list_status(StatusCode::OK)?.parse()
ListChecked(checked) ==
    IF ~checked.ok THEN checked ELSE parse(checked.v, "Vec<ListedImage>").r

ListResponse(response) == ListChecked(assert_list_status(response, 200).r)

\* DecImages::list
DecImages_list(client, script) ==
    Then(Send(get(Images_list(client.url)), script), ListResponse)

\* response.assert_unit_status(StatusCode::OK): the body of a 200 is not read
CreateResponse(response) == assert_unit_status(response, 200).r

CreateSent(client, uri, script) ==
    IF ~uri.ok THEN [r |-> Err(Internal(UrlBuilderParseError(uri.e))), sent |-> <<>>]
    ELSE Then(Send(post_with_auth(uri.v, client.registry_auth), script), CreateResponse)

\* DecImages::create
DecImages_create(client, request, script) ==
    CreateSent(client, Images_create(client.url, request), script)

CreateImageRequest_default ==
    [from_image |-> None, from_src |-> None, repo |-> None, tag |-> None,
     message |-> None, platform |-> None]

\* DecImages::pull: CreateImageRequest::default().image(repo).tag(tag)
DecImages_pull(client, repo, tag, script) ==
    DecImages_create(client,
                     [CreateImageRequest_default EXCEPT !.from_image = Some(repo),
                                                        !.tag = Some(tag)],
                     script)

\* present.iter().any(|item| item.repo_tags.contains(&sought))
Found(present, sought) ==
    \E i \in DOMAIN present : \E j \in DOMAIN present[i].repo_tags :
        present[i].repo_tags[j] = sought

\* self.pull(image_repo, image_tag).await?; Ok(Pulled)
Pulled(sent, pulled) ==
    [r |-> IF pulled.r.ok THEN Ok("Pulled") ELSE pulled.r, sent |-> sent \o pulled.sent]

\* a variant that pulls whatever the list says
PullIfListed_always(client, repo, tag, script, present) ==
    IF ~present.r.ok THEN present
    ELSE Pulled(present.sent, DecImages_pull(client, repo, tag, Tail(script)))

\* let present = self.list().await?; and the rest of pull_if_not_present
PullIfListed(client, repo, tag, script, present) ==
    IF ~present.r.ok THEN present
    ELSE IF Found(present.r.v, repo \o <<58>> \o tag)
    THEN [r |-> Ok("AlreadyPresent"), sent |-> present.sent]
    ELSE Pulled(present.sent, DecImages_pull(client, repo, tag, Tail(script)))

\* DecImages::pull_if_not_present
DecImages_pull_if_not_present(client, repo, tag, script) ==
    PullIfListed(client, repo, tag, script, DecImages_list(client, script))

\* DecImages::push
DecImages_push(client, repo, tag, script) ==
    Then(Send(post_with_auth(Images_push(client.url, repo, tag), client.registry_auth), script),
         CreateResponse)

\* response.assert_item_status(StatusCode::OK)?.parse_stream()
BuildChecked(checked) ==
    IF ~checked.ok THEN checked
    ELSE parse_stream(checked.v, "BuildImageResponseStreamItem").r

BuildResponse(response) == BuildChecked(assert_item_status(response, 200).r)

BuildSent(client, uri, context, script) ==
    IF ~uri.ok THEN [r |-> Err(Internal(DecLibraryError_from(uri.e))), sent |-> <<>>]
    ELSE Then(Send(post_with_auth_config(uri.v, client.registry_auth, TAR, context), script),
              BuildResponse)

\* DecImages::build
DecImages_build(client, request, context, script) ==
    BuildSent(client, Images_build(client.url, request), context, script)

\* Ok(result.unwrap_or_default())
ChangesParsed(result) ==
    IF ~result.ok THEN result
    ELSE IF result.v.some THEN Ok(result.v.v) ELSE Ok(<<>>)

ChangesChecked(checked) ==
    IF ~checked.ok THEN checked
    ELSE ChangesParsed(parse(checked.v, "Option<Vec<FileSystemChange>>").r)

ChangesResponse(response) == ChangesChecked(assert_item_status(response, 200).r)

\* DecContainerFiles::changes
DecContainerFiles_changes(client, container_id, script) ==
    Then(Send(get(Files_changes(client.url, container_id)), script), ChangesResponse)

----------------------------------------------------------------------------
(* The client's operations on their own: a client, the arguments of one    *)
(* call and what the server answers, then the call.                        *)

MaxImages == 2

ImageKinds == {"two", "near", "untagged", "broken"}

\* je with an acute accent, and a password with a quote in it
RegistryAuths ==
    {[username |-> <<106, 233>>, password |-> T(<<"p", Q, "w">>), email |-> e, server |-> s] :
        e \in {None, Some(T(<<"e", ".", "i", "o">>))},
        s \in {None, Some(T(<<"r", ".", "i", "o">>))}}
    \ {[username |-> <<106, 233>>, password |-> T(<<"p", Q, "w">>),
         email |-> Some(T(<<"e", ".", "i", "o">>)), server |-> None]}

\* DockerEngineClient::with_server(server), then with_registry_auth or not
Clients ==
    [registry_auth : {None} \cup {Some(a) : a \in RegistryAuths},
     url : {ApiOf(T(<<"h", "t", "t", "p", ":", "/", "/", "a", ":", "1", "2", "3">>))}]

ServedWith(bodies) ==
    {[fault |-> "none", status |-> s, header |-> Some([text |-> JSON, visible_ascii |-> TRUE]),
      body |-> b] : s \in {200, 404, 409}, b \in bodies}
    \cup {[fault |-> f, status |-> 200, header |-> None, body |-> [kind |-> "empty"]] :
            f \in {"send", "body"}}

ErrorGone == [kind |-> "error", message |-> T(<<"g", "o", "n", "e">>), layout |-> "compact"]

\* what the engine may answer to GET /images/json
ListServed ==
    ServedWith({[kind |-> "empty"], [kind |-> "notjson"], ErrorGone}
               \cup {[kind |-> "images", images |-> is] : is \in SeqsUpTo(ImageKinds, MaxImages)})

\* .. to POST /images/create, /images/{name}/push and /build: the progress
\* of the work as a stream, which reports a failure of the work as an item
StreamServed ==
    ServedWith({[kind |-> "empty"], ErrorGone,
                [kind |-> "stream", elems |-> <<"stream">>],
                [kind |-> "stream", elems |-> <<"stream", "error">>]})

\* .. to GET /containers/{id}/changes
ChangesServed ==
    ServedWith({[kind |-> "empty"], [kind |-> "notjson"], ErrorGone, [kind |-> "null"],
                [kind |-> "changes"]})

SoughtTags == {T(<<"b", "a", "r">>), T(<<"b", "a", "z">>), T(<<"b", "a">>)}

Foo == T(<<"f", "o", "o">>)

ClientRecipes ==
    [fault : {"images_list"}, client : Clients, script : {<<m>> : m \in ListServed}]
    \cup [fault : {"pull", "push"}, client : Clients, repo : {Foo}, tag : SoughtTags,
          script : {<<m>> : m \in StreamServed}]
    \cup [fault : {"pull_if_not_present"}, client : Clients, repo : {Foo}, tag : SoughtTags,
          script : ListServed \X StreamServed]
    \cup [fault : {"images_build"}, client : Clients,
          tags : {<<>>, <<T(<<"f", "o", "o", ":", "b", "a", "r">>)>>},
          script : {<<m>> : m \in StreamServed}]
    \cup [fault : {"changes"}, client : Clients, script : {<<m>> : m \in ChangesServed}]

InitClient ==
    /\ mock \in ClientRecipes
    /\ raw = None
    /\ op = "new"
    /\ arg = {}
    /\ input = None
    /\ outcome = NoOutcome
    /\ steps = <<>>

\* the call returns: its result to the caller, and what it sent to the log
Called(name, result) ==
    /\ mock.fault = name
    /\ op = "new"
    /\ op' = name
    /\ outcome' = result.r
    /\ steps' = result.sent
    /\ UNCHANGED <<mock, raw, arg, input>>

\* client.images().list().await
ImagesList == Called("images_list", DecImages_list(mock.client, mock.script))

\* client.images().pull(repo, tag).await
Pull == Called("pull", DecImages_pull(mock.client, mock.repo, mock.tag, mock.script))

\* client.images().pull_if_not_present(repo, tag).await
PullIfNotPresent ==
    Called("pull_if_not_present",
           DecImages_pull_if_not_present(mock.client, mock.repo, mock.tag, mock.script))

\* client.images().push(repo, tag).await
Push == Called("push", DecImages_push(mock.client, mock.repo, mock.tag, mock.script))

\* client.images().build(request, context).await
ImagesBuild ==
    Called("images_build",
           DecImages_build(mock.client,
                           BuildImageRequest([dockerfile |-> None, tags |-> mock.tags,
                                              build_args |-> <<>>, labels |-> <<>>],
                                             <<>>, <<>>),
                           <<31, 139>>, mock.script))

\* client.container("abc").files().changes().await
Changes ==
    Called("changes",
           DecContainerFiles_changes(mock.client, T(<<"a", "b", "c">>), mock.script))

NextClient == ImagesList \/ Pull \/ PullIfNotPresent \/ Push \/ ImagesBuild \/ Changes

SpecClient == InitClient /\ [][NextClient]_vars

----------------------------------------------------------------------------
(* What was served, read off the recipe of the body and not off its bytes. *)

\* the body is well-formed UTF-8
ServedUtf8(recipe) == recipe.kind \notin {"badutf8", "badutf8json"}

\* the text of a body that is well-formed UTF-8
ServedText(recipe) ==
    Render(recipe, IF recipe.kind = "error" THEN recipe.message ELSE <<>>)

NoItem == [stream |-> None, error_detail |-> None, error |-> None]

\* the values of type A that the body is a sequence of, None if it is no
\* sequence of JSON values of type A
ServedValues(A, recipe) ==
    CASE recipe.kind = "empty" -> Some(<<>>)
      [] recipe.kind = "frames" -> IF recipe.frames = <<>> THEN Some(<<>>) ELSE None
      [] recipe.kind = "error" ->
            IF A = "ErrorResponse" THEN Some(<<[message |-> recipe.message]>>)
            ELSE Some(<<NoItem>>)
      [] recipe.kind = "nomessage" ->
            IF A = "ErrorResponse" THEN None
            ELSE Some(<<[stream |-> None, error_detail |-> None,
                         error |-> Some(T(<<"a">>))]>>)
      [] recipe.kind = "wrongtype" ->
            IF A = "ErrorResponse" THEN None ELSE Some(<<NoItem>>)
      [] recipe.kind = "stream" ->
            IF recipe.elems = <<>> THEN Some(<<>>)
            ELSE IF A = "ErrorResponse" THEN None
            ELSE IF \A i \in DOMAIN recipe.elems : ElemItem(recipe.elems[i]).some
            THEN Some([i \in DOMAIN recipe.elems |-> ElemItem(recipe.elems[i]).v])
            ELSE None
      [] OTHER -> None

\* the one value of type A that the body is, None if it is not one such value
ServedValue(A, recipe) ==
    IF ServedValues(A, recipe).some /\ Len(ServedValues(A, recipe).v) = 1
    THEN Some(ServedValues(A, recipe).v[1])
    ELSE None

ItemMode == op \in {"assert_item_status", "assert_item_status_in"}

ListMode == op = "assert_list_status"

UnitMode == op \in {"assert_unit_status", "assert_unit_status_in"}

\* the statuses the operation was told to expect
ExpectedOf ==
    IF op \in {"assert_item_status_in", "assert_unit_status_in"} THEN arg ELSE {arg}

\* the operation met a status it was not told to expect
Unexpected == (ItemMode \/ ListMode \/ UnitMode) /\ input.v.status \notin ExpectedOf

IsContentTypeError(e, expected) ==
    /\ e.tag = "UnexpectedResponseContentType"
    /\ e = UnexpectedResponseContentType(expected, input.v.content_type)

IsUtf8Error(e) ==
    /\ e.tag = "UnparseableUtf8Response"
    /\ e.status = input.v.status
    /\ e.content_type = input.v.content_type

IsJsonError(e) ==
    /\ e.tag = "UnparseableJsonResponse"
    /\ e = UnparseableJsonResponse(input.v.status, ServedText(mock.body), SerdeError)

\* the response carries a well-formed error JSON object under application/json
ServedErrorJson == input.v.content_type = Some(JSON) /\ mock.body.kind = "error"

\* e is the error of the first step that fails when a response that is not
\* ServedErrorJson is parsed as an error JSON object
IsErrorJsonFailure(e) ==
    IF input.v.content_type # Some(JSON) THEN IsContentTypeError(e, JSON)
    ELSE IF ~ServedUtf8(mock.body) THEN IsUtf8Error(e)
    ELSE IsJsonError(e)

----------------------------------------------------------------------------
(* The claims *)

C2_ListNotFoundIsApiNotFound ==
    (ListMode /\ Unexpected /\ input.v.status = 404) =>
        outcome = Err(ApiNotFound(mock.uri))

C2_Witness ==
    /\ ListMode /\ Unexpected /\ input.v.status = 404
    /\ ServedErrorJson
    /\ outcome = Err(ApiNotFound(mock.uri))

\* C3: a response with status 501 that is not expected gives, in item, list
\* and unit mode alike, ApiNotImplemented with the URL of the request, and
\* no step looks at its content type or its body.
C3_NotImplemented ==
    (Unexpected /\ input.v.status = 501) =>
        outcome = Err(ApiNotImplemented(mock.uri)) /\ steps = <<>>

C3_Witness ==
    /\ UnitMode /\ Unexpected /\ input.v.status = 501
    /\ ServedErrorJson
    /\ outcome = Err(ApiNotImplemented(mock.uri))

C5_RejectedOrParseError ==
    ((ItemMode \/ ListMode) /\ Unexpected /\ input.v.status \notin {404, 501}) =>
        IF ServedErrorJson
        THEN outcome = Err(Rejected(input.v.status, mock.body.message))
        ELSE ~outcome.ok /\ outcome.e.tag # "Rejected" /\ IsErrorJsonFailure(outcome.e)

C5_Witness ==
    /\ ListMode /\ Unexpected /\ input.v.status = 409
    /\ input.v.content_type = Some(JSON) /\ mock.body.kind = "nomessage"
    /\ outcome.e.tag = "UnparseableJsonResponse"

\* C6: assert_item_status_in succeeds exactly when the status of the
\* response is one of the expected statuses, and then it returns the
\* response as it was received; otherwise it returns an error.
C6_ItemStatusIn ==
    op = "assert_item_status_in" =>
        /\ outcome.ok <=> input.v.status \in arg
        /\ outcome.ok =>
              /\ outcome.v = input.v
              /\ outcome.v = DockerEngineHttpResponse(mock.uri, mock.status,
                                 input.v.content_type, ServedBody(mock.body))
              /\ raw = input
        /\ ~outcome.ok =>
              outcome.e.tag \in {"NotFound", "ApiNotImplemented", "Rejected",
                                 "UnexpectedResponseContentType",
                                 "UnparseableUtf8Response", "UnparseableJsonResponse"}

C6_Witness ==
    /\ op = "assert_item_status_in" /\ arg = {200, 404}
    /\ input.v.status = 404
    /\ outcome.ok /\ outcome.v.status = 404 /\ outcome.v.body # <<>>

\* C7: a response with a success status whose content type is not the one
\* the parse expects gives UnexpectedResponseContentType with the expected
\* and the actual content type, also when its body would parse; the body is
\* neither decoded nor parsed before the content type is checked.
C7_ContentTypeBeforeBody ==
    /\ (op \in {"parse", "parse_stream"} /\ input.v.status \in 200..299
            /\ input.v.content_type # Some(JSON)) =>
          /\ outcome = Err(UnexpectedResponseContentType(JSON, input.v.content_type))
          /\ steps = <<"assert_content_type">>
    /\ (op = "parse_container_log" /\ input.v.status \in 200..299
            /\ input.v.content_type.some /\ input.v.content_type # Some(STREAM)) =>
          /\ outcome = Err(UnexpectedResponseContentType(STREAM, input.v.content_type))
          /\ steps = <<"assume_content_type">>

C7_Witness ==
    /\ op = "parse" /\ arg = "ErrorResponse" /\ input.v.status = 200
    /\ input.v.content_type = Some("text/html") /\ mock.body.kind = "error"
    /\ outcome.e.tag = "UnexpectedResponseContentType"

\* C8: assert_content_type accepts a response exactly when its content type
\* is present and equal to the expected one; assume_content_type accepts
\* exactly when it is absent or equal; each rejection is
\* UnexpectedResponseContentType with the expected and the actual value.
C8_StrictAndWeakCheck ==
    /\ op = "assert_content_type" =>
          outcome.ok <=> input.v.content_type = Some(arg)
    /\ op = "assume_content_type" =>
          outcome.ok <=> (~input.v.content_type.some \/ input.v.content_type = Some(arg))
    /\ op \in {"assert_content_type", "assume_content_type"} =>
          IF outcome.ok THEN outcome.v = input.v
          ELSE outcome.e = UnexpectedResponseContentType(arg, input.v.content_type)

C8_Witness ==
    /\ op = "assume_content_type" /\ arg = STREAM
    /\ ~input.v.content_type.some
    /\ mock.header.some
    /\ outcome.ok

\* C9: when a JSON response is parsed, the body is decoded as UTF-8 before
\* it is parsed as JSON: a body that is not UTF-8 gives
\* UnparseableUtf8Response with the status and the content type, never
\* UnparseableJsonResponse; a body that is UTF-8 but not the expected JSON
\* gives UnparseableJsonResponse with the status and the whole text.
C9_Utf8BeforeJson ==
    (op \in {"parse", "parse_stream"} /\ input.v.content_type = Some(JSON)) =>
        /\ ~ServedUtf8(mock.body) =>
              /\ ~outcome.ok /\ IsUtf8Error(outcome.e)
              /\ steps = <<"assert_content_type", "assume_utf8">>
        /\ (/\ ServedUtf8(mock.body)
            /\ IF op = "parse" THEN ~ServedValue(arg, mock.body).some
               ELSE ~ServedValues(arg, mock.body).some) =>
              /\ ~outcome.ok /\ IsJsonError(outcome.e)
              /\ steps = <<"assert_content_type", "assume_utf8", "from_str">>

C9_Witness ==
    /\ op = "parse" /\ arg = "ErrorResponse"
    /\ input.v.content_type = Some(JSON) /\ mock.body.kind = "badutf8json"
    /\ outcome.e.tag = "UnparseableUtf8Response"

\* C10: parse_stream on the body of a JSON response returns the values of
\* all the elements of the body, in the order of the body, or
\* UnparseableJsonResponse; when an element does not parse, none of the
\* elements before it is returned.
C10_StreamAllOrNothing ==
    (op = "parse_stream" /\ input.v.content_type = Some(JSON) /\ ServedUtf8(mock.body)) =>
        IF ServedValues(arg, mock.body).some
        THEN outcome = Ok(ServedValues(arg, mock.body).v)
        ELSE ~outcome.ok /\ IsJsonError(outcome.e)

C10_Witness ==
    /\ op = "parse_stream" /\ arg = "BuildImageResponseStreamItem"
    /\ input.v.content_type = Some(JSON)
    /\ mock.body.kind = "stream" /\ Len(mock.body.elems) = 2
    /\ ElemItem(mock.body.elems[1]).some /\ ~ElemItem(mock.body.elems[2]).some
    /\ outcome.e.tag = "UnparseableJsonResponse"

\* C11: unit mode is item mode with the payload of success discarded: on
\* every response and every expected set assert_unit_status_in (and
\* assert_unit_status) succeeds exactly when assert_item_status_in (and
\* assert_item_status) does, returning () where that returns the response,
\* and fails with the same error.
C11_UnitIsItem ==
    /\ op = "assert_unit_status_in" =>
          /\ outcome.ok <=> assert_item_status_in(input.v, arg).r.ok
          /\ outcome.ok <=> input.v.status \in arg
          /\ IF outcome.ok THEN outcome.v = Unit
             ELSE outcome.e = assert_item_status_in(input.v, arg).r.e
    /\ op = "assert_unit_status" =>
          /\ outcome.ok <=> assert_item_status(input.v, arg).r.ok
          /\ IF outcome.ok THEN outcome.v = Unit
             ELSE outcome.e = assert_item_status(input.v, arg).r.e

C11_Witness ==
    /\ op = "assert_unit_status_in" /\ arg = {204, 304}
    /\ input.v.status = 404 /\ ServedErrorJson
    /\ outcome = Err(NotFound(mock.body.message))

\* the frames of the stream of a SpecStream state
Frames == mock.stream.frames

\* every frame before frame n has a payload that is UTF-8
Utf8Before(n) == \A i \in 1..(n - 1) : PayloadOf(Frames[i].payload).utf8

C13_LinesOfFrames ==
    (op = "read_all" /\ mock.stream.cut = 0 /\ Utf8Before(Len(Frames) + 1)) =>
        outcome =
            Ok([i \in DOMAIN Frames |->
                  [kind |-> CASE Frames[i].channel = 0 -> [kind |-> "StdIn"]
                              [] Frames[i].channel = 1 -> [kind |-> "StdOut"]
                              [] Frames[i].channel = 2 -> [kind |-> "StdErr"]
                              [] OTHER -> [kind |-> "Other", value |-> Frames[i].channel],
                   text |-> PayloadOf(Frames[i].payload).text]])

C13_Witness ==
    /\ op = "read_all" /\ mock.stream.cut = 0 /\ mock.stream.reserved = <<9, 8, 7>>
    /\ Len(Frames) = 2 /\ Frames[1] = [channel |-> 1, payload |-> "long"]
    /\ Frames[2] = [channel |-> 255, payload |-> "empty"]
    /\ outcome.ok /\ Len(outcome.v) = 2 /\ Len(outcome.v[1].text) = 256
    /\ outcome.v[2] = [kind |-> [kind |-> "Other", value |-> 255], text |-> <<>>]

----------------------------------------------------------------------------
(* Timestamped log lines *)

LineHead == mock.line.head

LineTail == mock.line.tail

LineChars == LineHead.chars + LineTail.chars

\* the error says which line it is about: it quotes the line, or the thirty
\* bytes the line begins with
NamesTheLine(result) ==
    /\ Returned(result)
    /\ ~result.ok
    /\ Len(result.e.args[1]) \in {Len(input.v), TIMESTAMP_LENGTH}
    /\ Len(result.e.args[1]) <= Len(input.v)
    /\ result.e.args[1] = SubSeq(input.v, 1, Len(result.e.args[1]))

\* C14: a line of at least 30 characters whose first 30 characters are a
\* timestamp splits into that timestamp and the rest of the line after the
\* separating space (empty when nothing, or only the separator, follows);
\* a line of fewer than 30 characters gives an error that names the line.
C14_SplitsStampedLines ==
    op = "split" =>
        /\ (LineChars >= 30 /\ LineHead.stamp.some) =>
              /\ Returned(outcome)
              /\ outcome.ok
              /\ outcome.v.timestamp = LineHead.stamp.v
              /\ (LineTail.separated \/ LineTail.bytes = <<>>) =>
                    outcome.v.text = LineTail.after
        /\ LineChars < 30 => NamesTheLine(outcome)

\* a timestamp directly followed by a two-byte character: the call aborts
C14_Witness ==
    /\ op = "split"
    /\ LineHead.stamp.some
    /\ LineTail.bytes = <<195, 169, 120>>
    /\ Aborted(outcome)

\* C15: for every line, whatever its length and characters, the call returns
\* a split result or an error value and never aborts, and the error is not
\* the read error of the stream framing.
C15_SplitNeverAborts ==
    op = "split" =>
        /\ Returned(outcome)
        /\ ~outcome.ok =>
              /\ "fmt" \in DOMAIN outcome.e
              /\ outcome.e # StreamLineReadError_Io

\* 29 letters and then a two-byte character, whose second byte is byte 30
C15_Witness ==
    /\ op = "split"
    /\ LineHead.bytes = Letters(29)
    /\ LineTail.bytes = <<195, 169, 120>>
    /\ Len(input.v) = 32
    /\ ~is_char_boundary(input.v, TIMESTAMP_LENGTH)
    /\ Aborted(outcome)

----------------------------------------------------------------------------
(* Connection strings *)

\* the kind of endpoint the connection string was written down as
ServerClass ==
    IF mock.server.prefix.class = "bare"
    THEN IF mock.server.address.absolute THEN "unix" ELSE "other"
    ELSE mock.server.prefix.class

\* C16: a connection string is classified at construction.  One that starts
\* with / or unix:// gives a UNIX-socket endpoint (where the build has UNIX
\* sockets; a capability error otherwise); http:// or https:// gives an HTTP
\* or HTTPS endpoint; tcp:// gives an endpoint whose request base is the
\* address with http:// in place of tcp:// and whose display form is the
\* original string; every other string, the empty one included, fails with
\* UnsupportedUrlScheme, and no client exists to make a request with.
C16_ConnectionStringClassified ==
    op = "with_server" =>
        /\ ServerClass = "unix" =>
              IF mock.unix
              THEN /\ outcome.ok
                   /\ outcome.v.http = "unix"
                   /\ outcome.v.url.display_url =
                         (IF mock.server.prefix.class = "bare" THEN input.v
                          ELSE mock.server.address.text)
              ELSE /\ ~outcome.ok
                   /\ outcome.e.tag = "NixPlatformFeatureDisabled"
        /\ ServerClass = "http" =>
              /\ outcome.ok
              /\ outcome.v.http = "http"
              /\ outcome.v.url.display_url = input.v
              /\ outcome.v.url.base = input.v \o T(<<"/", "v", "1", ".", "4", "1">>)
        /\ ServerClass = "https" =>
              IF mock.tls
              THEN /\ outcome.ok
                   /\ outcome.v.http = "https"
                   /\ outcome.v.url.display_url = input.v
                   /\ outcome.v.url.base = input.v \o T(<<"/", "v", "1", ".", "4", "1">>)
              ELSE outcome = Err(TlsConnectorError)
        /\ ServerClass = "tcp" =>
              /\ outcome.ok
              /\ outcome.v.http = "http"
              /\ outcome.v.url.display_url = input.v
              /\ outcome.v.url.base =
                    T(<<"h", "t", "t", "p", ":", "/", "/">>) \o mock.server.address.text
                    \o T(<<"/", "v", "1", ".", "4", "1">>)
        /\ ServerClass = "other" => outcome = Err(UnsupportedUrlScheme)

\* tcp://a:123 gives the base http://a:123/v1.41 and is displayed as given
C16_Witness ==
    /\ op = "with_server"
    /\ input.v = T(<<"t", "c", "p", ":", "/", "/", "a", ":", "1", "2", "3">>)
    /\ outcome.ok
    /\ outcome.v.url.base =
          T(<<"h", "t", "t", "p", ":", "/", "/", "a", ":", "1", "2", "3", "/", "v", "1", ".", "4", "1">>)
    /\ DockerEngineApi_fmt(outcome.v.url) =
          T(<<"D", "o", "c", "k", "e", "r", " ", "e", "n", "g", "i", "n", "e", " ", "a", "t", " ">>)
          \o input.v

----------------------------------------------------------------------------
(* URL building *)

\* the segments, the i-th of them with a slash after it
SlashAfter(segments, i) == [segments EXCEPT ![i] = @ \o <<47>>]

\* C17: joining one or more path segments onto a base gives the same string
\* whether or not the base ends with a slash, and whether or not the path
\* accumulated before a later segment ends with a slash.
C17_JoinWhateverSlashes ==
    (op = "join" /\ mock.segments # <<>>) =>
        /\ outcome = Joined(mock.stem, mock.segments)
        /\ outcome = Joined(mock.stem \o <<47>>, mock.segments)
        /\ \A i \in 1..(Len(mock.segments) - 1) :
              mock.segments[i] # <<>> =>
                  outcome = Joined(BaseText(mock), SlashAfter(mock.segments, i))

\* http://a/b, then c, then foo/bar
C17_Witness ==
    /\ op = "join"
    /\ mock.stem = T(<<"h", "t", "t", "p", ":", "/", "/", "a", "/", "b">>)
    /\ ~mock.slash
    /\ mock.segments = <<T(<<"c">>), T(<<"f", "o", "o", "/", "b", "a", "r">>)>>
    /\ outcome = Ok(T(<<"h", "t", "t", "p", ":", "/", "/", "a", "/", "b", "/", "c", "/",
                        "f", "o", "o", "/", "b", "a", "r">>))

\* C18: two calls that build a URL from identical inputs give the same
\* bytes, for every URL-building operation: joins, a container list with
\* label filters, an image build with labels and build arguments.
C18_SameInputsSameUrl ==
    (op \in {"join", "list", "build"} /\ raw.some) => outcome = raw.v

\* two label filters, listed twice: the filters come in two orders
C18_Witness ==
    /\ op = "list"
    /\ raw.some
    /\ Cardinality(DOMAIN mock.labels) = 2
    /\ input.v.filters.labels.entries = mock.labels
    /\ outcome.ok
    /\ raw.v.ok
    /\ Len(outcome.v) = Len(raw.v.v)
    /\ outcome # raw.v


----------------------------------------------------------------------------
(* C19 *)

\* C19: every failure of a public client operation, whatever request the
\* caller passes, is returned to the caller as a typed error value; no
\* operation aborts instead of returning.  Here for DecExec::start: the
\* operation returns, and what it returns on failure is a DecUseError.
C19_FailuresAreReturned ==
    op = "start" =>
        /\ Returned(outcome)
        /\ ~outcome.ok => "tag" \in DOMAIN outcome.e

\* a caller asked for a TTY and the operation panicked before any request
\* was built or sent
C19_Witness ==
    /\ op = "start"
    /\ mock.request.tty
    /\ Aborted(outcome)

----------------------------------------------------------------------------
(* C20 *)

\* the error value holds the request URL, the response status, the text of
\* the response body, or the message that was read from the body
CarriesContext(e) ==
    \/ "uri" \in DOMAIN e
    \/ "status" \in DOMAIN e
    \/ "text" \in DOMAIN e
    \/ "message" \in DOMAIN e

\* the variants that hold nothing of the request or the response but, for
\* the third, the two content types
BareVariants ==
    {"HttpClientError", "HttpClientError2", "UnexpectedResponseContentType", "StreamLineRead"}

----------------------------------------------------------------------------
(* C29 *)

\* the response arrived with a Content-Type header whose value is not the
\* expected type
ArrivedWithOther(expected) == mock.header.some /\ mock.header.v.text # expected

\* C29: a response that arrived with a Content-Type header whose value
\* differs from the expected type is never accepted by the weak check,
\* whatever bytes the value holds: assume_content_type returns the error, and
\* parse_container_log does not go on to read the body.
C29_WeakCheckRejectsOtherHeader ==
    /\ (op = "assume_content_type" /\ ArrivedWithOther(arg)) => ~outcome.ok
    /\ (op = "parse_container_log" /\ ArrivedWithOther(STREAM)) =>
          /\ ~outcome.ok
          /\ "read_all" \notin {steps[i] : i \in DOMAIN steps}

\* a header value with a byte that is not visible ASCII: execute kept no
\* content type, and the weak check let the response through
C29_Witness ==
    /\ op = "parse_container_log"
    /\ mock.header.some
    /\ ~mock.header.v.visible_ascii
    /\ mock.header.v.text # STREAM
    /\ ~input.v.content_type.some
    /\ mock.body.kind = "frames"
    /\ mock.body.frames # <<>>
    /\ mock.body.cut = 0
    /\ outcome.ok

----------------------------------------------------------------------------
(* C26 *)

\* the segments joined before the last one
Accumulated == SubSeq(mock.segments, 1, Len(mock.segments) - 1)

LastSegment == mock.segments[Len(mock.segments)]

\* C26: join never resolves a leading slash: when the segment begins with
\* '/', the URL after join(segment) is the accumulated URL followed by the
\* segment, the accumulated path kept in front of it.
C26_JoinKeepsAccumulatedPath ==
    (/\ op = "join"
     /\ mock.segments # <<>>
     /\ starts_with(LastSegment, <<47>>)
     /\ Joined(BaseText(mock), Accumulated).ok) =>
        outcome =
            Ok(trim_end_matches(Joined(BaseText(mock), Accumulated).v, 47) \o LastSegment)

\* http://a/b joined with /x: the accumulated path /b is gone
C26_Witness ==
    /\ op = "join"
    /\ mock.stem = T(<<"h", "t", "t", "p", ":", "/", "/", "a", "/", "b">>)
    /\ mock.segments = <<T(<<"/", "x">>)>>
    /\ outcome = Ok(T(<<"h", "t", "t", "p", ":", "/", "/", "a", "/", "x">>))

----------------------------------------------------------------------------
(* C25 *)

\* the query the operation itself gives the URL
OwnQuery ==
    IF op = "inspect"
    THEN Some(T(<<"s", "i", "z", "e", "=">>) \o bool_to_string(mock.size))
    ELSE IF mock.signal.some
    THEN Some(T(<<"s", "i", "g", "n", "a", "l", "=">>) \o mock.signal.v)
    ELSE None

\* the last segment of the operation's path
OwnLeaf == IF op = "inspect" THEN T(<<"j", "s", "o", "n">>) ELSE T(<<"k", "i", "l", "l">>)

\* the URL read as a URL: its query is the operation's own, it has no
\* fragment, and its path is /v1.41/containers/, the segments of the
\* identifier, and the operation's leaf
IdentifierStaysInPath(u) ==
    /\ u.query = OwnQuery
    /\ u.fragment = None
    /\ Len(u.path) = 3 + Len(SplitOn(mock.id, 47))
    /\ u.path[1] = DOCKER_ENGINE_VERSION
    /\ u.path[2] = T(<<"c", "o", "n", "t", "a", "i", "n", "e", "r", "s">>)
    /\ u.path[Len(u.path)] = OwnLeaf

\* C25: in every request URL built for an operation on a caller-supplied
\* identifier the identifier is escaped, so that one holding '?', '#', '&'
\* or a space adds or changes no query parameter and does not cut the path
\* short, for format!-built URLs (inspect) as for the URL builder's (kill).
C25_IdentifierEscaped ==
    op \in {"inspect", "kill"} =>
        /\ outcome.ok
        /\ Url_from_str(outcome.v).ok
        /\ IdentifierStaysInPath(Url_from_str(outcome.v).v)

\* inspect of the container "a?b": the path ends at a, and the query is
\* b/json?size=true
C25_Witness ==
    /\ op = "inspect"
    /\ mock.id = T(<<"a", "?", "b">>)
    /\ mock.size
    /\ mock.server = T(<<"h", "t", "t", "p", ":", "/", "/", "a", ":", "1", "2", "3">>)
    /\ outcome = Ok(T(<<"h", "t", "t", "p", ":", "/", "/", "a", ":", "1", "2", "3", "/",
                        "v", "1", ".", "4", "1", "/", "c", "o", "n", "t", "a", "i", "n", "e",
                        "r", "s", "/", "a", "?", "b", "/", "j", "s", "o", "n", "?",
                        "s", "i", "z", "e", "=", "t", "r", "u", "e">>))
    /\ Url_from_str(outcome.v).v.query
          = Some(T(<<"b", "/", "j", "s", "o", "n", "?", "s", "i", "z", "e", "=",
                     "t", "r", "u", "e">>))

----------------------------------------------------------------------------
(* C24 *)

\* the base address of the endpoint the client was constructed for
BaseAddress == as_string(select_base(mock.server, TRUE).v)

\* C24: every request URL the client produces consists of the endpoint's
\* base address, the version segment /v1.41 and then the path of the
\* operation; the versioned base is the one computed at construction.
C24_VersionedBaseInEveryUrl ==
    op \in {"list", "build", "inspect", "kill"} =>
        /\ ApiOf(mock.server).base = BaseAddress \o DOCKER_ENGINE_VERSION_PATH
        /\ outcome.ok
        /\ starts_with(outcome.v, BaseAddress \o DOCKER_ENGINE_VERSION_PATH \o <<47>>)

\* kill of the container "/x": the URL has lost the version segment
C24_Witness ==
    /\ op = "kill"
    /\ mock.id = T(<<"/", "x">>)
    /\ ~mock.signal.some
    /\ mock.server = T(<<"h", "t", "t", "p", ":", "/", "/", "a", ":", "1", "2", "3">>)
    /\ ApiOf(mock.server).base
          = T(<<"h", "t", "t", "p", ":", "/", "/", "a", ":", "1", "2", "3", "/",
                "v", "1", ".", "4", "1">>)
    /\ outcome = Ok(T(<<"h", "t", "t", "p", ":", "/", "/", "a", ":", "1", "2", "3", "/",
                        "x", "/", "k", "i", "l", "l">>))

----------------------------------------------------------------------------
(* C28 *)

\* the kind of the address the client sends its requests to
AddressKind(base) ==
    IF starts_with(base, T(<<"h", "t", "t", "p", "s", ":", "/", "/">>)) THEN "https"
    ELSE IF starts_with(base, T(<<"h", "t", "t", "p", ":", "/", "/">>)) THEN "http"
    ELSE IF starts_with(base, T(<<"u", "n", "i", "x", ":", "/", "/">>)) THEN "unix"
    ELSE "other"

\* C28: for every client a constructor returns, the kind of the transport
\* handle is the kind of the endpoint's base address: plain HTTP for http://
\* and tcp:// addresses, HTTPS for https://, UNIX socket for socket paths.
C28_TransportAgreesWithAddress ==
    (op \in {"client_new", "with_server", "with_tls_config"} /\ outcome.ok) =>
        outcome.v.http = AddressKind(outcome.v.url.base)

\* with_tls_config("tcp://foo", tls): an HTTPS handle for http://foo/v1.41
C28_Witness ==
    /\ op = "with_tls_config"
    /\ input.v = T(<<"t", "c", "p", ":", "/", "/", "f", "o", "o">>)
    /\ outcome.ok
    /\ outcome.v.http = "https"
    /\ outcome.v.url.base
          = T(<<"h", "t", "t", "p", ":", "/", "/", "f", "o", "o", "/", "v", "1", ".", "4", "1">>)

----------------------------------------------------------------------------
(* The client's operations against what the server answered *)

\* the answer the engine gave to the k-th request of the call
Answer(k) == mock.script[k]

\* the answer reports a failure: by its status, or, under a 200, by an item
\* of the stream of progress that holds an error
ReportsFailure(m) ==
    /\ m.fault = "none"
    /\ \/ m.status >= 400
       \/ m.body.kind = "stream" /\ \E i \in DOMAIN m.body.elems : m.body.elems[i] = "error"

\* the value the caller got holds the failure the stream reported
HandsOverFailure ==
    /\ op = "images_build"
    /\ \E i \in DOMAIN outcome.v : outcome.v[i].error.some

ClientOps == {"images_list", "pull", "pull_if_not_present", "push", "images_build", "changes"}

\* C21: no operation returns Ok when an answer it received reported a
\* failure, unless the failure is in the value it returns; a list operation
\* answered 404 returns ApiNotFound and not an empty list.
C21_NoFailureSwallowed ==
    op \in ClientOps =>
        /\ (outcome.ok /\ \E k \in 1..Len(steps) : ReportsFailure(Answer(k))) => HandsOverFailure
        /\ (op = "images_list" /\ Answer(1).fault = "none" /\ Answer(1).status = 404) =>
                outcome = Err(ApiNotFound(Images_list(mock.client.url)))

\* a pull answered 200 with a stream that reports an error
C21_Witness ==
    /\ op = "pull"
    /\ Answer(1).fault = "none" /\ Answer(1).status = 200
    /\ Answer(1).body = [kind |-> "stream", elems |-> <<"stream", "error">>]
    /\ outcome = Ok(Unit)

\* the answer is a failure of the transport or an error response
Failed(m) == m.fault # "none" \/ m.status >= 400

\* C22: nothing is retried inside the client: no request of a call is sent
\* twice, a call sends no more requests than its operation has (two for
\* pull_if_not_present, one for the others), and the request that met a
\* transport failure or an error response is the last one of the call, which
\* returns an error.
C22_NothingRetried ==
    op \in ClientOps =>
        /\ \A i, j \in DOMAIN steps : steps[i] = steps[j] => i = j
        /\ Len(steps) <= (IF op = "pull_if_not_present" THEN 2 ELSE 1)
        /\ \A k \in DOMAIN steps : Failed(Answer(k)) => k = Len(steps) /\ ~outcome.ok

\* the connection failed under the first of the two requests of a call
C22_Witness ==
    /\ op = "pull_if_not_present"
    /\ Answer(1).fault = "send"
    /\ Len(steps) = 1
    /\ steps[1].method = "GET"
    /\ outcome = Err([tag |-> "HttpClientError2"])

\* the number a character of the base64 alphabet stands for, -1 for other
\* characters
Base64Val(c) ==
    IF \E n \in 0..63 : Base64Char(n) = c THEN CHOOSE n \in 0..63 : Base64Char(n) = c ELSE -1

\* the bytes a base64 text stands for, None if it is not base64 with padding
Base64Decode(text) ==
    LET pad == Cardinality({i \in DOMAIN text : text[i] = 61})
        val(i) == IF text[i] = 61 THEN 0 ELSE Base64Val(text[i])
        byte(k) ==
            LET g == 4 * ((k - 1) \div 3)
            IN  CASE (k - 1) % 3 = 0 -> val(g + 1) * 4 + val(g + 2) \div 16
                  [] (k - 1) % 3 = 1 -> (val(g + 2) % 16) * 16 + val(g + 3) \div 4
                  [] OTHER -> (val(g + 3) % 4) * 64 + val(g + 4)
    IN  IF /\ Len(text) % 4 = 0
           /\ pad <= 2
           /\ \A i \in DOMAIN text : text[i] = 61 => i > Len(text) - pad
           /\ \A i \in DOMAIN text : val(i) >= 0
        THEN Some([k \in 1..(3 * (Len(text) \div 4) - pad) |-> byte(k)])
        ELSE None

\* the members of the JSON object a header value holds, <<>> if it holds none
MembersIn(value) ==
    LET bytes == Base64Decode(value)
        text == IF bytes.some THEN from_utf8(bytes.v) ELSE Err("not base64")
        parsed == IF text.ok THEN ParseValue(text.v, 1) ELSE NoParse
    IN  IF parsed.ok /\ parsed.next = Len(text.v) + 1 /\ parsed.v.t = "obj" THEN parsed.v.m
        ELSE <<>>

StrMember(name, s) == [k |-> name, v |-> [t |-> "str", s |-> s]]

\* the JSON form of the credentials, member by member
CredentialMembers(auth) ==
    <<StrMember(T(<<"u", "s", "e", "r", "n", "a", "m", "e">>), auth.username),
      StrMember(T(<<"p", "a", "s", "s", "w", "o", "r", "d">>), auth.password)>>
    \o (IF auth.email.some THEN <<StrMember(T(<<"e", "m", "a", "i", "l">>), auth.email.v)>>
        ELSE <<>>)
    \o (IF auth.server.some
        THEN <<StrMember(T(<<"s", "e", "r", "v", "e", "r", "a", "d", "d", "r", "e", "s", "s">>),
                         auth.server.v)>>
        ELSE <<>>)

HeadersNamed(request, name) == {h \in request.headers : h.name = name}

\* C23: the POST request of a pull or a push carries X-Registry-Auth, once
\* and holding the base64 of the JSON form of the credentials, when the
\* client was given credentials; when it was given none the request is sent
\* without the header and the call fails with no error of building it.
C23_AuthHeaderOnlyWithCredentials ==
    op \in {"pull", "push", "pull_if_not_present"} =>
        /\ op \in {"pull", "push"} => Len(steps) = 1 /\ steps[1].method = "POST"
        /\ outcome.ok \/ outcome.e.tag # "Internal"
        /\ \A k \in DOMAIN steps :
            steps[k].method = "POST" =>
                IF mock.client.registry_auth.some
                THEN /\ Cardinality(HeadersNamed(steps[k], "X-Registry-Auth")) = 1
                     /\ \A h \in HeadersNamed(steps[k], "X-Registry-Auth") :
                            MembersIn(h.value) = CredentialMembers(mock.client.registry_auth.v)
                ELSE steps[k].headers = {}

\* a push by a client with credentials that name a server and an e-mail
C23_Witness ==
    /\ op = "push"
    /\ mock.client.registry_auth.some
    /\ mock.client.registry_auth.v.email.some
    /\ Len(steps) = 1
    /\ HeadersNamed(steps[1], "X-Registry-Auth") # {}

\* the engine answered the list request with a list of images that can be read
ListAnswered ==
    /\ Answer(1).fault = "none" /\ Answer(1).status = 200
    /\ Answer(1).body.kind = "images"
    /\ \A i \in DOMAIN Answer(1).body.images : Answer(1).body.images[i] # "broken"

\* the tags of the images of that list
ListedTags ==
    UNION {{ImageTags(Answer(1).body.images[i])[j] :
                j \in DOMAIN ImageTags(Answer(1).body.images[i])} :
           i \in DOMAIN Answer(1).body.images}

\* C27: pull_if_not_present(repo, tag) first lists the images; if the list
\* call fails its error is returned and no pull request is sent; if a listed
\* image has the tag repo:tag the result is AlreadyPresent and no pull
\* request is sent; otherwise one pull request is sent, and the result is
\* Pulled if the pull succeeded and the pull's error if it did not.
C27_PullIfNotPresent ==
    op = "pull_if_not_present" =>
        /\ Len(steps) >= 1
        /\ steps[1] = [method |-> "GET", uri |-> Images_list(mock.client.url), headers |-> {},
                       body |-> <<>>]
        /\ IF ~ListAnswered
           THEN /\ Len(steps) = 1
                /\ ~outcome.ok
                /\ outcome = DecImages_list(mock.client, <<Answer(1)>>).r
           ELSE IF (mock.repo \o T(<<":">>) \o mock.tag) \in ListedTags
           THEN Len(steps) = 1 /\ outcome = Ok("AlreadyPresent")
           ELSE /\ Len(steps) = 2
                /\ <<steps[2]>> = DecImages_pull(mock.client, mock.repo, mock.tag, <<Answer(2)>>).sent
                /\ steps[2].method = "POST"
                /\ IF DecImages_pull(mock.client, mock.repo, mock.tag, <<Answer(2)>>).r.ok
                   THEN outcome = Ok("Pulled")
                   ELSE outcome = DecImages_pull(mock.client, mock.repo, mock.tag, <<Answer(2)>>).r

\* the tag sought is the second tag of the second image listed
C27_Witness ==
    /\ op = "pull_if_not_present"
    /\ mock.tag = T(<<"b", "a", "r">>)
    /\ Answer(1).status = 200
    /\ Answer(1).body = [kind |-> "images", images |-> <<"near", "two">>]
    /\ outcome = Ok("AlreadyPresent")
    /\ Len(steps) = 1

\* the entries of the JSON object a header value holds, as a set of
\* <<server, members of its entry>>
ConfigsIn(value) ==
    {<<MembersIn(value)[i].k,
       IF MembersIn(value)[i].v.t = "obj" THEN MembersIn(value)[i].v.m ELSE <<>>>> :
        i \in DOMAIN MembersIn(value)}

\* the members of the entry of X-Registry-Config for the credentials
ConfigMembers(auth) ==
    <<StrMember(T(<<"u", "s", "e", "r", "n", "a", "m", "e">>), auth.username),
      StrMember(T(<<"p", "a", "s", "s", "w", "o", "r", "d">>), auth.password)>>

\* C30: whenever the client has been given registry credentials, every image
\* build request it sends carries the X-Registry-Config header built from
\* those credentials, whether or not the credentials name a server.
C30_BuildCarriesRegistryConfig ==
    (op = "images_build" /\ mock.client.registry_auth.some) =>
        /\ Len(steps) = 1
        /\ Cardinality(HeadersNamed(steps[1], "X-Registry-Config")) = 1
        /\ \A h \in HeadersNamed(steps[1], "X-Registry-Config") :
            \E entry \in ConfigsIn(h.value) :
                entry[2] = ConfigMembers(mock.client.registry_auth.v)

\* a build by a client whose credentials name no server went out with no
\* X-Registry-Config
C30_Witness ==
    /\ op = "images_build"
    /\ mock.client.registry_auth.some
    /\ ~mock.client.registry_auth.v.server.some
    /\ Len(steps) = 1
    /\ HeadersNamed(steps[1], "Content-Type") = {Header("Content-Type", TAR)}
    /\ HeadersNamed(steps[1], "X-Registry-Config") = {}

====
